---- MODULE Spec2Model ----
(***************************************************************************)
(* State-machine model of the AXP20x battery fuel-gauge / charger driver   *)
(* (drivers/power/axp20x_fuel_gauge.c).                                    *)
(*                                                                         *)
(* The driver record (struct axp20x_battery_power) and the two registers   *)
(* the driver writes at run time (PWR_OP_MODE, CHRG_CTRL1) are state.      *)
(* Registers the driver only reads (input status, VBUS management, the ADC *)
(* and gauge registers, the battery-present bit) are hardware inputs: the  *)
(* value each read returns is drawn when the operation runs, and a read or *)
(* an update may fail with a negative error code.  Every operation leaves  *)
(* in `last` the ordered log of the register accesses it made, of its      *)
(* assignments to health and percent and of the notifications it emitted.  *)
(***************************************************************************)
EXTENDS Integers, Sequences, FiniteSets, TLC

VARIABLES
    health,            \* power->health
    percent,           \* power->percent
    capacity,          \* power->capacity           (uAh)
    charge_user_imax,  \* power->charge_user_imax   (uA)
    tbatt_min,         \* power->tbatt_min
    tbatt_max,         \* power->tbatt_max
    supply,            \* power->supply is registered (non-NULL)
    irqs,              \* the interrupt handlers are requested
    monitor,           \* power->monitor (delayed work) is pending
    opMode,            \* register AXP20X_PWR_OP_MODE (bits the hardware does not drive)
    chrgCtrl1,         \* register AXP20X_CHRG_CTRL1
    pc,                \* position of axp20x_power_probe
    last,              \* the last operation: name, argument, result, access log
    writer,            \* axp20x_battery_poll between its two stores at out:
    reader             \* a telemetry consumer loading health, then percent

vars == <<health, percent, capacity, charge_user_imax, tbatt_min, tbatt_max,
          supply, irqs, monitor, opMode, chrgCtrl1, pc, last, writer, reader>>

(***************************************************************************)
(* Bounds of the model.                                                    *)
(***************************************************************************)
\* Largest number of register accesses that fail within one operation.
MaxFaults == 1

(***************************************************************************)
(* Program constants.                                                      *)
(***************************************************************************)
AXP20X_PWR_STATUS_AC_PRESENT     == 128
AXP20X_PWR_STATUS_AC_AVAILABLE   == 64
AXP20X_PWR_STATUS_VBUS_PRESENT   == 32
AXP20X_PWR_STATUS_VBUS_AVAILABLE == 16
AXP20X_PWR_STATUS_BAT_CHARGING   == 4
AXP20X_PWR_OP_CHARGING           == 64
AXP20X_PWR_OP_BATT_PRESENT       == 32
AXP20X_VBUS_CLIMIT_MASK          == 3
AXP20X_VBUC_CLIMIT_900mA         == 0
AXP20X_VBUC_CLIMIT_500mA         == 1
AXP20X_VBUC_CLIMIT_100mA         == 2
AXP20X_VBUC_CLIMIT_NONE          == 3
AXP20X_CHRG_CTRL1_ENABLE         == 128
AXP20X_CHRG_CTRL1_TGT_VOLT       == 96
AXP20X_CHRG_CTRL1_TGT_4_1V       == 0
AXP20X_CHRG_CTRL1_TGT_4_15V      == 32
AXP20X_CHRG_CTRL1_TGT_4_2V       == 64
AXP20X_CHRG_CTRL1_TGT_4_36V      == 96
AXP20X_CHRG_CTRL1_TGT_CURR       == 15
AXP20X_FG_PERCENT                == 127

\* errno values returned negated by the driver and by regmap
EIO    == 5
EBUSY  == 16
ENODEV == 19
EINVAL == 22

\* enum power_supply_status values used by set_property and get_property
POWER_SUPPLY_STATUS_CHARGING     == 1
POWER_SUPPLY_STATUS_DISCHARGING  == 2
POWER_SUPPLY_STATUS_NOT_CHARGING == 3
POWER_SUPPLY_STATUS_FULL         == 4
POWER_SUPPLY_TECHNOLOGY_LION     == 2

(***************************************************************************)
(* C integer arithmetic and regmap helpers.                                *)
(***************************************************************************)
INT_MAX == 2147483647

INT_MIN == -INT_MAX - 1

\* a - b on 32-bit ints, for b > 0, wrapping around as the kernel's build
\* (-fno-strict-overflow) makes signed overflow do: a - b + 2^32 below INT_MIN
Sub32(a, b) ==
    IF a >= INT_MIN + b THEN a - b
    ELSE (a + INT_MAX) + (INT_MAX - b) + 2

\* the u32 product a * b (b < 2^15) stored into an int: the low 32 bits of
\* the product, read as a signed value
MulU32(a, b) ==
    LET lo == (a % 65536) * b
        hi == ((a \div 65536) * b + lo \div 65536) % 65536
    IN  IF hi >= 32768 THEN (hi - 65536) * 65536 + (lo % 65536)
        ELSE hi * 65536 + (lo % 65536)

\* C division: truncation towards zero
CDiv(a, b) == IF a >= 0 THEN a \div b ELSE -((-a) \div b)

RECURSIVE BitAndN(_, _, _)
BitAndN(a, b, n) ==
    IF n = 0 THEN 0
    ELSE (a % 2) * (b % 2) + 2 * BitAndN(a \div 2, b \div 2, n - 1)

\* a & b on the 8 bits of a register (a negative int contributes its low byte)
\* the 8-bit AND, tabulated once
BitAndTab == [a \in 0..255 |-> [m \in 0..255 |-> BitAndN(a, m, 8)]]

BitAnd(a, b) == BitAndTab[a % 256][b % 256]

\* the register value regmap_update_bits(map, reg, mask, val) stores, given the
\* value `orig` it read, and what it stores when the access fails (ret # 0)
UpdateBits(orig, mask, val, ret) ==
    IF ret # 0 THEN orig
    ELSE (orig - BitAnd(orig, mask)) + BitAnd(val, mask)

(***************************************************************************)
(* Access log entries.                                                     *)
(***************************************************************************)
\* regmap_read / axp20x_read_variable_width returning v (v < 0: the error)
Rd(reg, v) == [k |-> "read", reg |-> reg, mask |-> 0, val |-> v,
               ret |-> IF v < 0 THEN v ELSE 0]

\* regmap_update_bits(map, reg, mask, val) returning ret
Upd(reg, mask, val, ret) == [k |-> "update", reg |-> reg, mask |-> mask,
                             val |-> val, ret |-> ret]

\* entry into a function whose runs are counted
Call(fn) == [k |-> "call", reg |-> fn, mask |-> 0, val |-> 0, ret |-> 0]

\* an assignment to a field of the driver record (power->health, power->percent)
Assign(field) == [k |-> "assign", reg |-> field, mask |-> 0, val |-> 0, ret |-> 0]

\* val->intval = v
Out(v) == [k |-> "out", reg |-> "intval", mask |-> 0, val |-> v, ret |-> 0]

\* val->intval = power->health: the health is named in the reg field
OutHealth(h) == [k |-> "out", reg |-> h, mask |-> 0, val |-> 0, ret |-> 0]

\* power_supply_changed()
Notify == [k |-> "notify", reg |-> "", mask |-> 0, val |-> 0, ret |-> 0]

\* 1 when a register access result is a failure
F(res) == IF res < 0 THEN 1 ELSE 0

(***************************************************************************)
(* axp20x_battery_max_chg_current                                          *)
(*   st: result of reading AXP20X_PWR_INPUT_STATUS                         *)
(*   vb: result of reading AXP20X_VBUS_IPSOUT_MGMT                         *)
(***************************************************************************)
\* the switch with the 500 mA and the 900 mA results exchanged
vbus_climit_current_swapped(f, cap) ==
    CASE f = AXP20X_VBUC_CLIMIT_100mA -> 0
      [] f = AXP20X_VBUC_CLIMIT_500mA -> 600000
      [] f = AXP20X_VBUC_CLIMIT_900mA -> 300000
      [] f = AXP20X_VBUC_CLIMIT_NONE  -> CDiv(cap, 2)
      [] OTHER -> 0

\* switch (vbusmgt & AXP20X_VBUS_CLIMIT_MASK), given the masked field f
vbus_climit_current(f, cap) ==
    CASE f = AXP20X_VBUC_CLIMIT_100mA -> 0
      [] f = AXP20X_VBUC_CLIMIT_500mA -> 300000
      [] f = AXP20X_VBUC_CLIMIT_900mA -> 600000
      [] f = AXP20X_VBUC_CLIMIT_NONE  -> CDiv(cap, 2)
      [] OTHER -> 0

axp20x_battery_max_chg_current(cap, st, vb) ==
    LET rs == <<Rd("PWR_INPUT_STATUS", st)>>
        rv == rs \o <<Rd("VBUS_IPSOUT_MGMT", vb)>>
    IN  IF st < 0 THEN [ret |-> st, log |-> rs]
        ELSE IF /\ BitAnd(st, AXP20X_PWR_STATUS_AC_PRESENT) # 0
                /\ BitAnd(st, AXP20X_PWR_STATUS_AC_AVAILABLE) # 0
             THEN [ret |-> CDiv(cap, 2), log |-> rs]
        ELSE IF /\ BitAnd(st, AXP20X_PWR_STATUS_VBUS_PRESENT) # 0
                /\ BitAnd(st, AXP20X_PWR_STATUS_VBUS_AVAILABLE) # 0
             THEN IF vb < 0 THEN [ret |-> vb, log |-> rv]
                  ELSE [ret |-> vbus_climit_current(
                                    BitAnd(vb, AXP20X_VBUS_CLIMIT_MASK), cap),
                        log |-> rv]
        ELSE [ret |-> 0, log |-> rs]

(***************************************************************************)
(* axp20x_battery_chg_reconfig                                             *)
(*   io = [st, vb, w1, w2]: results of the status read, the VBUS read and  *)
(*   of the register updates, in program order.                            *)
(*   Result: the new PWR_OP_MODE and CHRG_CTRL1 values and the log.        *)
(***************************************************************************)
\* the charge_max == 0 branch, also writing a zero target-current field
chg_reconfig_off_writes_current(om, cc1, io) ==
    [opMode |-> UpdateBits(om, AXP20X_PWR_OP_CHARGING, 0, io.w1),
     chrgCtrl1 |-> UpdateBits(cc1, AXP20X_CHRG_CTRL1_TGT_CURR, 0, io.w2),
     log |-> <<Upd("PWR_OP_MODE", AXP20X_PWR_OP_CHARGING, 0, io.w1),
               Upd("CHRG_CTRL1", AXP20X_CHRG_CTRL1_TGT_CURR, 0, io.w2)>>]

\* the charge_max == 0 branch
chg_reconfig_off(om, cc1, io) ==
    [opMode |-> UpdateBits(om, AXP20X_PWR_OP_CHARGING, 0, io.w1),
     chrgCtrl1 |-> cc1,
     log |-> <<Upd("PWR_OP_MODE", AXP20X_PWR_OP_CHARGING, 0, io.w1)>>]

\* variant: the target-current field moves one step at a time towards the
\* value wanted
chg_reconfig_on_one_step(charge_max, imax, om, cc1, io) ==
    LET c1  == IF imax < charge_max THEN imax ELSE charge_max
        c2  == IF CDiv(c1 - 300000, 100000) > 15
               THEN 300000 + 15 * 100000 ELSE c1
        cur == BitAnd(cc1, AXP20X_CHRG_CTRL1_TGT_CURR)
        fld == IF cur < CDiv(c2 - 300000, 100000)
               THEN cur + 1 ELSE CDiv(c2 - 300000, 100000)
    IN  [opMode |-> UpdateBits(om, AXP20X_PWR_OP_CHARGING,
                               AXP20X_PWR_OP_CHARGING, io.w2),
         chrgCtrl1 |-> UpdateBits(cc1, AXP20X_CHRG_CTRL1_TGT_CURR, fld, io.w1),
         log |-> <<Upd("CHRG_CTRL1", AXP20X_CHRG_CTRL1_TGT_CURR, fld, io.w1),
                   Upd("PWR_OP_MODE", AXP20X_PWR_OP_CHARGING,
                       AXP20X_PWR_OP_CHARGING, io.w2)>>]

\* the charge_max > 0 branch
chg_reconfig_on(charge_max, imax, om, cc1, io) ==
    LET c1  == IF imax < charge_max THEN imax ELSE charge_max
        c2  == IF CDiv(c1 - 300000, 100000) > 15
               THEN 300000 + 15 * 100000 ELSE c1
        fld == CDiv(c2 - 300000, 100000)
    IN  [opMode |-> UpdateBits(om, AXP20X_PWR_OP_CHARGING,
                               AXP20X_PWR_OP_CHARGING, io.w2),
         chrgCtrl1 |-> UpdateBits(cc1, AXP20X_CHRG_CTRL1_TGT_CURR, fld, io.w1),
         log |-> <<Upd("CHRG_CTRL1", AXP20X_CHRG_CTRL1_TGT_CURR, fld, io.w1),
                   Upd("PWR_OP_MODE", AXP20X_PWR_OP_CHARGING,
                       AXP20X_PWR_OP_CHARGING, io.w2)>>]

axp20x_battery_chg_reconfig(cap, imax, om, cc1, io) ==
    LET m == axp20x_battery_max_chg_current(cap, io.st, io.vb)
        entry == <<Call("axp20x_battery_chg_reconfig")>> \o m.log
        r == IF m.ret = 0 THEN chg_reconfig_off(om, cc1, io)
             ELSE chg_reconfig_on(m.ret, imax, om, cc1, io)
    IN  IF m.ret < 0
        THEN [opMode |-> om, chrgCtrl1 |-> cc1, max |-> m.ret, log |-> entry]
        ELSE [opMode |-> r.opMode, chrgCtrl1 |-> r.chrgCtrl1, max |-> m.ret,
              log |-> entry \o r.log \o <<Notify>>]

(***************************************************************************)
(* axp20x_battery_power_set_property                                       *)
(*   io = [st, vb, w, st2, vb2, w1, w2]: results of the register accesses  *)
(*   in program order (st, vb, w: the accesses of set_property itself;     *)
(*   st2, vb2, w1, w2: those of the axp20x_battery_chg_reconfig it calls). *)
(*   Result: the new charge_user_imax, PWR_OP_MODE and CHRG_CTRL1, the     *)
(*   return value and the log.                                             *)
(***************************************************************************)
ReconfigIo(io) == [st |-> io.st2, vb |-> io.vb2, w1 |-> io.w1, w2 |-> io.w2]

Unchanged(imax, om, cc1, ret, log) ==
    [imax |-> imax, opMode |-> om, chrgCtrl1 |-> cc1, ret |-> ret, log |-> log]

\* POWER_SUPPLY_STATUS_CHARGING, a zero maximum answered with success
status_charging_silent(cap, imax, om, cc1, io) ==
    LET m == axp20x_battery_max_chg_current(cap, io.st, io.vb)
        u == Upd("PWR_OP_MODE", AXP20X_PWR_OP_CHARGING, AXP20X_PWR_OP_CHARGING, io.w)
        om1 == UpdateBits(om, AXP20X_PWR_OP_CHARGING, AXP20X_PWR_OP_CHARGING, io.w)
        rc == axp20x_battery_chg_reconfig(cap, imax, om1, cc1, ReconfigIo(io))
    IN  IF m.ret < 0 THEN Unchanged(imax, om, cc1, m.ret, m.log)
        ELSE IF m.ret = 0 THEN Unchanged(imax, om, cc1, 0, m.log)
        ELSE IF io.w # 0 THEN Unchanged(imax, om, cc1, io.w, m.log \o <<u>>)
        ELSE [imax |-> imax, opMode |-> rc.opMode, chrgCtrl1 |-> rc.chrgCtrl1,
              ret |-> 0, log |-> m.log \o <<u>> \o rc.log]

\* case POWER_SUPPLY_PROP_STATUS, val->intval == POWER_SUPPLY_STATUS_CHARGING
status_charging(cap, imax, om, cc1, io) ==
    LET m == axp20x_battery_max_chg_current(cap, io.st, io.vb)
        u == Upd("PWR_OP_MODE", AXP20X_PWR_OP_CHARGING, AXP20X_PWR_OP_CHARGING, io.w)
        om1 == UpdateBits(om, AXP20X_PWR_OP_CHARGING, AXP20X_PWR_OP_CHARGING, io.w)
        rc == axp20x_battery_chg_reconfig(cap, imax, om1, cc1, ReconfigIo(io))
    IN  IF m.ret < 0 THEN Unchanged(imax, om, cc1, m.ret, m.log)
        ELSE IF m.ret = 0 THEN Unchanged(imax, om, cc1, -EBUSY, m.log)
        ELSE IF io.w # 0 THEN Unchanged(imax, om, cc1, io.w, m.log \o <<u>>)
        ELSE [imax |-> imax, opMode |-> rc.opMode, chrgCtrl1 |-> rc.chrgCtrl1,
              ret |-> 0, log |-> m.log \o <<u>> \o rc.log]

\* POWER_SUPPLY_STATUS_NOT_CHARGING, also zeroing the target-current field
status_not_charging_zeroes_current(imax, om, cc1, io) ==
    [imax |-> imax,
     opMode |-> UpdateBits(om, AXP20X_PWR_OP_CHARGING, 0, io.w),
     chrgCtrl1 |-> UpdateBits(cc1, AXP20X_CHRG_CTRL1_TGT_CURR, 0, io.w),
     ret |-> io.w,
     log |-> <<Upd("PWR_OP_MODE", AXP20X_PWR_OP_CHARGING, 0, io.w)>>]

\* case POWER_SUPPLY_PROP_STATUS, val->intval == POWER_SUPPLY_STATUS_NOT_CHARGING
status_not_charging(imax, om, cc1, io) ==
    [imax |-> imax,
     opMode |-> UpdateBits(om, AXP20X_PWR_OP_CHARGING, 0, io.w),
     chrgCtrl1 |-> cc1,
     ret |-> io.w,
     log |-> <<Upd("PWR_OP_MODE", AXP20X_PWR_OP_CHARGING, 0, io.w)>>]

set_property_status(val, cap, imax, om, cc1, io) ==
    IF val = POWER_SUPPLY_STATUS_CHARGING
    THEN status_charging(cap, imax, om, cc1, io)
    ELSE IF val = POWER_SUPPLY_STATUS_NOT_CHARGING
    THEN status_not_charging(imax, om, cc1, io)
    ELSE Unchanged(imax, om, cc1, -EINVAL, <<>>)

\* variant: 4.36 V is accepted like the other target voltages
set_property_voltage_max_design_takes_4_36(val, cap, imax, om, cc1, io) ==
    LET wr(tgt) == [imax |-> imax, opMode |-> om,
                    chrgCtrl1 |-> UpdateBits(cc1, AXP20X_CHRG_CTRL1_TGT_VOLT, tgt, io.w),
                    ret |-> io.w,
                    log |-> <<Upd("CHRG_CTRL1", AXP20X_CHRG_CTRL1_TGT_VOLT, tgt, io.w)>>]
    IN  CASE val = 4100000 -> wr(AXP20X_CHRG_CTRL1_TGT_4_1V)
          [] val = 4150000 -> wr(AXP20X_CHRG_CTRL1_TGT_4_15V)
          [] val = 4200000 -> wr(AXP20X_CHRG_CTRL1_TGT_4_2V)
          [] val = 4360000 -> wr(AXP20X_CHRG_CTRL1_TGT_4_36V)
          [] OTHER -> Unchanged(imax, om, cc1, -EINVAL, <<>>)

set_property_voltage_max_design(val, cap, imax, om, cc1, io) ==
    LET wr(tgt) == [imax |-> imax, opMode |-> om,
                    chrgCtrl1 |-> UpdateBits(cc1, AXP20X_CHRG_CTRL1_TGT_VOLT, tgt, io.w),
                    ret |-> io.w,
                    log |-> <<Upd("CHRG_CTRL1", AXP20X_CHRG_CTRL1_TGT_VOLT, tgt, io.w)>>]
    IN  CASE val = 4100000 -> wr(AXP20X_CHRG_CTRL1_TGT_4_1V)
          [] val = 4150000 -> wr(AXP20X_CHRG_CTRL1_TGT_4_15V)
          [] val = 4200000 -> wr(AXP20X_CHRG_CTRL1_TGT_4_2V)
          [] OTHER -> Unchanged(imax, om, cc1, -EINVAL, <<>>)

\* case POWER_SUPPLY_PROP_CURRENT_MAX, reconfiguring before the value is stored
set_property_current_max_late_store(val, cap, imax, om, cc1, io) ==
    LET rc == axp20x_battery_chg_reconfig(cap, imax, om, cc1, ReconfigIo(io))
    IN  IF CDiv(Sub32(val, 300000), 100000) > 15
        THEN Unchanged(imax, om, cc1, -EINVAL, <<>>)
        ELSE IF val < 300000
        THEN Unchanged(imax, om, cc1, -EINVAL, <<>>)
        ELSE [imax |-> val, opMode |-> rc.opMode, chrgCtrl1 |-> rc.chrgCtrl1,
              ret |-> 0, log |-> rc.log]

\* case POWER_SUPPLY_PROP_CURRENT_MAX
set_property_current_max(val, cap, imax, om, cc1, io) ==
    LET rc == axp20x_battery_chg_reconfig(cap, val, om, cc1, ReconfigIo(io))
    IN  IF CDiv(Sub32(val, 300000), 100000) > 15
        THEN Unchanged(imax, om, cc1, -EINVAL, <<>>)
        ELSE IF val < 300000
        THEN Unchanged(imax, om, cc1, -EINVAL, <<>>)
        ELSE [imax |-> val, opMode |-> rc.opMode, chrgCtrl1 |-> rc.chrgCtrl1,
              ret |-> 0, log |-> rc.log]

axp20x_battery_power_set_property(psp, val, cap, imax, om, cc1, io) ==
    CASE psp = "STATUS" -> set_property_status(val, cap, imax, om, cc1, io)
      [] psp = "VOLTAGE_MIN_DESIGN" -> Unchanged(imax, om, cc1, -EINVAL, <<>>)
      [] psp = "VOLTAGE_MAX_DESIGN" ->
            set_property_voltage_max_design(val, cap, imax, om, cc1, io)
      [] psp = "CURRENT_MAX" -> set_property_current_max(val, cap, imax, om, cc1, io)
      [] OTHER -> Unchanged(imax, om, cc1, -EINVAL, <<>>)

(***************************************************************************)
(* axp20x_battery_poll                                                     *)
(*   io = [mode, vbat, fg, vbat2, ts]: results of reading                  *)
(*   AXP20X_PWR_OP_MODE, AXP20X_BATT_V_H (12 bit), AXP20X_FG_RES and       *)
(*   AXP20X_BATT_V_H again (the read the temperature test makes); ts is    *)
(*   what the temperature-sensor ADC (AXP20X_TS_IN_H) holds, which no      *)
(*   statement of the function reads.                                      *)
(*   h, p: power->health, power->percent; sup: power->supply is set.       *)
(***************************************************************************)
\* the out: label, notifying whether or not the pair differs
poll_out_always_notifies(h, p, sup, nh, np, reads) ==
    [health |-> nh, percent |-> np,
     log |-> reads \o <<Assign("health"), Assign("percent")>>
                   \o (IF sup THEN <<Notify>> ELSE <<>>)]

\* the out: label
\* variant: a sampled Unknown does not replace a stored Good
poll_out_keeps_good(h, p, sup, nh, np, reads) ==
    LET kh == IF h = "Good" /\ nh = "Unknown" THEN "Good" ELSE nh
    IN  IF h # kh \/ p # np
        THEN [health |-> kh, percent |-> np,
              log |-> reads \o <<Assign("health"), Assign("percent")>>
                            \o (IF sup THEN <<Notify>> ELSE <<>>)]
        ELSE [health |-> h, percent |-> p, log |-> reads]

poll_out(h, p, sup, nh, np, reads) ==
    IF h # nh \/ p # np
    THEN [health |-> nh, percent |-> np,
          log |-> reads \o <<Assign("health"), Assign("percent")>>
                        \o (IF sup THEN <<Notify>> ELSE <<>>)]
    ELSE [health |-> h, percent |-> p, log |-> reads]

\* variant: a battery whose voltage is not dead is reported as good
poll_present_reports_good(tmin, tmax, io) ==
    LET r2 == <<Rd("BATT_V_H", io.vbat), Rd("FG_RES", io.fg)>>
        h2 == IF io.vbat >= 0 /\ io.vbat * 1100 < 2000000 THEN "Dead" ELSE "Good"
        p2 == IF io.fg >= 0 THEN BitAnd(io.fg, AXP20X_FG_PERCENT) ELSE 0
    IN  [health |-> h2, percent |-> p2, reads |-> r2]

\* the checks made when the battery is present: the local health and percent
\* and the reads made
poll_present(tmin, tmax, io) ==
    LET r2 == <<Rd("BATT_V_H", io.vbat), Rd("FG_RES", io.fg)>>
        r3 == r2 \o <<Rd("BATT_V_H", io.vbat2)>>
        h2 == IF io.vbat >= 0 /\ io.vbat * 1100 < 2000000 THEN "Dead" ELSE "Unknown"
        p2 == IF io.fg >= 0 THEN BitAnd(io.fg, AXP20X_FG_PERCENT) ELSE 0
        h3 == IF io.vbat2 >= 0 /\ io.vbat2 < tmin THEN "Cold"
              ELSE IF io.vbat2 >= 0 /\ io.vbat2 > tmax THEN "Overheat"
              ELSE h2
    IN  IF tmin # 0 \/ tmax # 0
        THEN [health |-> h3, percent |-> p2, reads |-> r3]
        ELSE [health |-> h2, percent |-> p2, reads |-> r2]

\* the poll without the battery-present test
axp20x_battery_poll_no_present_test(h, p, tmin, tmax, sup, io) ==
    LET r1 == <<Rd("PWR_OP_MODE", io.mode)>>
        s  == poll_present(tmin, tmax, io)
    IN  IF io.mode < 0 THEN [health |-> h, percent |-> p, log |-> r1]
        ELSE poll_out(h, p, sup, s.health, s.percent, r1 \o s.reads)

axp20x_battery_poll(h, p, tmin, tmax, sup, io) ==
    LET r1 == <<Rd("PWR_OP_MODE", io.mode)>>
        s  == poll_present(tmin, tmax, io)
    IN  IF io.mode < 0 THEN [health |-> h, percent |-> p, log |-> r1]
        ELSE IF BitAnd(io.mode, AXP20X_PWR_OP_BATT_PRESENT) = 0
        THEN poll_out(h, p, sup, "Unknown", 0, r1)
        ELSE poll_out(h, p, sup, s.health, s.percent, r1 \o s.reads)

(***************************************************************************)
(* Interrupt handlers: each returns the new health, the new PWR_OP_MODE    *)
(* and its log.  w: result of the handler's register update.               *)
(***************************************************************************)
\* variant: the insertion handler leaves the charger alone
axp20x_irq_batt_plugin_no_write(h, om, w) ==
    [health |-> "Unknown", opMode |-> om, log |-> <<Assign("health"), Notify>>]

axp20x_irq_batt_plugin(h, om, w) ==
    [health |-> "Unknown",
     opMode |-> UpdateBits(om, AXP20X_PWR_OP_CHARGING, AXP20X_PWR_OP_CHARGING, w),
     log |-> <<Assign("health"),
               Upd("PWR_OP_MODE", AXP20X_PWR_OP_CHARGING, AXP20X_PWR_OP_CHARGING, w),
               Notify>>]

\* variant: the removal handler gives up, silently, when its write fails
axp20x_irq_batt_removal_quiet_on_error(h, om, w) ==
    [health |-> "Unknown",
     opMode |-> UpdateBits(om, AXP20X_PWR_OP_CHARGING, 0, w),
     log |-> <<Assign("health"), Upd("PWR_OP_MODE", AXP20X_PWR_OP_CHARGING, 0, w)>>
             \o (IF w < 0 THEN <<>> ELSE <<Notify>>)]

axp20x_irq_batt_removal(h, om, w) ==
    [health |-> "Unknown",
     opMode |-> UpdateBits(om, AXP20X_PWR_OP_CHARGING, 0, w),
     log |-> <<Assign("health"),
               Upd("PWR_OP_MODE", AXP20X_PWR_OP_CHARGING, 0, w), Notify>>]

axp20x_irq_batt_activation(h, om, w) ==
    [health |-> "Unknown", opMode |-> om, log |-> <<Assign("health"), Notify>>]

axp20x_irq_batt_activated(h, om, w) ==
    [health |-> "Good", opMode |-> om, log |-> <<Assign("health"), Notify>>]

axp20x_irq_batt_charging(h, om, w) ==
    [health |-> h, opMode |-> om, log |-> <<Notify>>]

\* variant: a completed charge marks the battery as good
axp20x_irq_batt_charged_sets_good(h, om, w) ==
    [health |-> "Good", opMode |-> om, log |-> <<Assign("health"), Notify>>]

axp20x_irq_batt_charged(h, om, w) ==
    [health |-> h, opMode |-> om, log |-> <<Notify>>]

axp20x_irq_batt_high_temp(h, om, w) ==
    [health |-> "Overheat",
     opMode |-> UpdateBits(om, AXP20X_PWR_OP_CHARGING, 0, w),
     log |-> <<Assign("health"),
               Upd("PWR_OP_MODE", AXP20X_PWR_OP_CHARGING, 0, w), Notify>>]

axp20x_irq_batt_low_temp(h, om, w) ==
    [health |-> "Cold", opMode |-> om, log |-> <<Assign("health"), Notify>>]

axp20x_irq_batt_chg_curr_low(h, om, w) ==
    [health |-> h, opMode |-> om, log |-> <<Notify>>]

axp20x_irq_power_low(h, om, w) ==
    [health |-> h, opMode |-> om, log |-> <<Notify>>]

axp20x_irq_power_low_crit(h, om, w) ==
    [health |-> h, opMode |-> om, log |-> <<Notify>>]

\* irq_names / irq_funcs of axp20x_power_probe
irq_names == {"BATT_HOT", "BATT_COLD", "BATT_PLUGIN", "BATT_REMOVAL",
              "BATT_ACTIVATE", "BATT_ACTIVATED", "BATT_CHARGING", "BATT_CHARGED",
              "BATT_CHG_CURR_LOW", "BATT_POWER_LOW_WARN", "BATT_POWER_LOW_CRIT"}

irq_funcs(name, h, om, w) ==
    CASE name = "BATT_HOT"            -> axp20x_irq_batt_high_temp(h, om, w)
      [] name = "BATT_COLD"           -> axp20x_irq_batt_low_temp(h, om, w)
      [] name = "BATT_PLUGIN"         -> axp20x_irq_batt_plugin(h, om, w)
      [] name = "BATT_REMOVAL"        -> axp20x_irq_batt_removal(h, om, w)
      [] name = "BATT_ACTIVATE"       -> axp20x_irq_batt_activation(h, om, w)
      [] name = "BATT_ACTIVATED"      -> axp20x_irq_batt_activated(h, om, w)
      [] name = "BATT_CHARGING"       -> axp20x_irq_batt_charging(h, om, w)
      [] name = "BATT_CHARGED"        -> axp20x_irq_batt_charged(h, om, w)
      [] name = "BATT_CHG_CURR_LOW"   -> axp20x_irq_batt_chg_curr_low(h, om, w)
      [] name = "BATT_POWER_LOW_WARN" -> axp20x_irq_power_low(h, om, w)
      [] name = "BATT_POWER_LOW_CRIT" -> axp20x_irq_power_low_crit(h, om, w)

(***************************************************************************)
(* axp20x_battery_config                                                   *)
(*   dt = [ocv, rdc, capa, temp]: the device-tree properties; ocv and temp *)
(*   are <<>> when the property is absent.                                 *)
(*   io = [mode, wen, wadc, wvolt]: results of reading AXP20X_PWR_OP_MODE, *)
(*   of the CHRG_CTRL1 enable update, of the ADC_EN1 update and of the     *)
(*   CHRG_CTRL1 target-voltage update.  The other calibration updates only *)
(*   appear in the log: their results are ignored by the code and the      *)
(*   registers they write are not read back by the driver.                 *)
(***************************************************************************)
OCV_CURVE_SIZE == 16

RdcReg(rdc) == CDiv(rdc * 10000 + 5371, 10742)

ConfigCalibLog(dt) ==
    <<Assign("health"), Upd("FG_RES", 128, 0, 0), Upd("RDC_H", 128, 0, 0),
      Upd("RDC_L", 255, RdcReg(dt.rdc), 0),
      Upd("RDC_H", 31, RdcReg(dt.rdc) \div 256, 0)>>
    \o [i \in 1..Len(dt.ocv) |-> Upd("OCV", 255, dt.ocv[i], 0)]
    \o <<Upd("FG_RES", 128, 128, 0)>>

ConfigTempLog(dt) ==
    IF dt.temp = <<>>
    THEN <<Upd("ADC_RATE", 7, 4, 0)>>
    ELSE <<Upd("ADC_RATE", 55, ((dt.temp[1] \div 20) - 1) * 16 + 2, 0),
           Upd("V_HTF_CHRG", 255, dt.temp[2] \div (16 * 800), 0),
           Upd("V_HTF_DISCHRG", 255, dt.temp[2] \div (16 * 800), 0),
           Upd("V_LTF_CHRG", 255, dt.temp[3] \div (16 * 800), 0),
           Upd("V_LTF_DISCHRG", 255, dt.temp[3] \div (16 * 800), 0)>>

ConfigTailLog(dt) ==
    <<Upd("APS_WARN_L1", 255, ((3500000 - 2867200) \div 4) \div 1400, 0),
      Upd("APS_WARN_L2", 255, ((3304000 - 2867200) \div 4) \div 1400, 0),
      Upd("FG_RES", 128, 128, 0), Upd("RDC_H", 128, 0, 0),
      Upd("RDC_H", 31, RdcReg(dt.rdc) \div 256, 0),
      Upd("RDC_L", 255, RdcReg(dt.rdc), 0),
      Upd("FG_RES", 128, 0, 0), Upd("OFF_CTRL", 64, 64, 0)>>

\* variant: any temperature-sensor current is taken
config_check_any_temp_current(dt) ==
    IF \E i \in DOMAIN dt.ocv : dt.ocv[i] > 100 THEN -EINVAL ELSE 0

\* the validation of the device-tree values, before anything is applied
config_check(dt) ==
    IF \E i \in DOMAIN dt.ocv : dt.ocv[i] > 100 THEN -EINVAL
    ELSE IF dt.temp # <<>> /\ dt.temp[1] \notin {20, 40, 60, 80} THEN -EINVAL
    ELSE 0

axp20x_battery_config(dt, tmin, tmax, cap, imax, cc1, io) ==
    LET same == [tbatt_min |-> tmin, tbatt_max |-> tmax, capacity |-> cap,
                 imax |-> imax, chrgCtrl1 |-> cc1]
        r1   == <<Rd("PWR_OP_MODE", io.mode)>>
        tset == IF dt.temp = <<>> THEN [tbatt_min |-> 0, tbatt_max |-> 0]
                ELSE [tbatt_min |-> dt.temp[2], tbatt_max |-> dt.temp[3]]
        adc  == Upd("ADC_EN1", IF dt.temp = <<>> THEN 192 ELSE 193, 193, io.wadc)
        l2   == r1 \o ConfigCalibLog(dt)
        l3   == l2 \o ConfigTempLog(dt) \o <<adc>>
    IN  IF io.mode < 0 THEN same @@ [ret |-> io.mode, log |-> r1]
        ELSE IF config_check(dt) # 0
        THEN same @@ [ret |-> config_check(dt), log |-> r1]
        ELSE IF dt.capa = 0 /\ BitAnd(io.mode, AXP20X_PWR_OP_BATT_PRESENT) = 0
        THEN [tbatt_min |-> tmin, tbatt_max |-> tmax, capacity |-> cap, imax |-> imax,
              chrgCtrl1 |-> UpdateBits(cc1, AXP20X_CHRG_CTRL1_ENABLE, 0, io.wen),
              ret |-> -ENODEV,
              log |-> l2 \o <<Upd("CHRG_CTRL1", AXP20X_CHRG_CTRL1_ENABLE, 0, io.wen),
                              Upd("OFF_CTRL", 64, 0, 0)>>]
        ELSE IF io.wadc # 0
        THEN tset @@ [capacity |-> cap, imax |-> imax, chrgCtrl1 |-> cc1,
                      ret |-> io.wadc, log |-> l3]
        ELSE tset @@
             [capacity |-> MulU32(dt.capa, 1000),
              imax |-> MulU32(IF dt.capa < 300 THEN 300 ELSE dt.capa, 1000),
              chrgCtrl1 |-> UpdateBits(cc1, AXP20X_CHRG_CTRL1_TGT_VOLT,
                                       AXP20X_CHRG_CTRL1_TGT_4_15V, io.wvolt),
              ret |-> 0,
              log |-> l3 \o <<Upd("CHRG_CTRL1", AXP20X_CHRG_CTRL1_TGT_VOLT,
                                  AXP20X_CHRG_CTRL1_TGT_4_15V, io.wvolt)>>
                         \o ConfigTailLog(dt)]

(***************************************************************************)
(* Inputs: the values the hardware, the device tree and the callers offer. *)
(* An environment is a record of the sample sets the operations draw from: *)
(*   status, vbus, present, vbat, vbat2, fg: results of register reads     *)
(*   ts: contents of the temperature-sensor ADC                            *)
(*   wr: results of register updates                                       *)
(*   ichg, idis: contents of the charge and discharge current ADCs         *)
(*   aps: contents of AXP20X_APS_WARN_L2                                   *)
(*   writes: <<property, value>> pairs written through the telemetry       *)
(*   interface; reads: the properties read through it                      *)
(*   irqs: the interrupts that fire; dt: device-tree contents.             *)
(***************************************************************************)
\* device-tree samples: capacity in mAh, OCV curve, temperature sensor tuple
GoodOcv == [i \in 1..OCV_CURVE_SIZE |-> 50]

BadOcv == [i \in 1..OCV_CURVE_SIZE |-> IF i = 3 THEN 101 ELSE 50]

Dt(ocv, capa, temp) == [ocv |-> ocv, rdc |-> 100, capa |-> capa, temp |-> temp]

\* irq_names / irq_funcs entries whose handler writes a register
RegisterIrqs == {"BATT_HOT", "BATT_PLUGIN", "BATT_REMOVAL"}

\* The power source varies (all source states, all current-limit fields under
\* VHOLD = 4.4 V, every property write, faults on every access); the battery
\* is present, at 3.85 V and 55 %.
SourceEnv ==
    [status  |-> {0, 192, 48, 240, -EIO},
     vbus    |-> {96, 97, 98, 99, -EIO},
     wr      |-> {0, -EIO},
     present |-> {AXP20X_PWR_OP_BATT_PRESENT},
     vbat    |-> {3500},
     vbat2   |-> {3500},
     ts      |-> {2000},
     fg      |-> {55},
     ichg    |-> {1000},
     idis    |-> {0},
     aps     |-> {78},
     reads   |-> {"CURRENT_MAX", "VOLTAGE_MAX_DESIGN"},
     irqs    |-> RegisterIrqs,
     writes  |->
        ({"STATUS"} \X {POWER_SUPPLY_STATUS_CHARGING, POWER_SUPPLY_STATUS_DISCHARGING,
                        POWER_SUPPLY_STATUS_NOT_CHARGING})
        \cup ({"VOLTAGE_MIN_DESIGN"} \X {3000000})
        \cup ({"VOLTAGE_MAX_DESIGN"} \X {4100000, 4150000, 4200000, 4360000})
        \cup ({"CURRENT_MAX"} \X {INT_MIN, 299999, 300000, 1050000, 1800000,
                                  1800001, 1900000})
        \cup ({"HEALTH"} \X {1}),
     dt      |-> {Dt(<<>>, 0, <<>>), Dt(GoodOcv, 400, <<>>), Dt(GoodOcv, 5000, <<>>),
                  Dt(BadOcv, 5000, <<>>), Dt(GoodOcv, 5000, <<30, 1500, 3000>>),
                  Dt(BadOcv, 0, <<>>)}]

\* The battery varies (present or not, 1.1 V, both sides of the 2.0 V dead
\* threshold, 3.85 V, gauge at 55 % and with all bits set, every interrupt,
\* faults on every access); the source is mains or none.
BatteryEnv ==
    [status  |-> {0, 192},
     vbus    |-> {96},
     wr      |-> {0, -EIO},
     present |-> {0, AXP20X_PWR_OP_BATT_PRESENT, -EIO},
     vbat    |-> {1000, 1818, 1819, 3500, -EIO},
     vbat2   |-> {1000, 2000, 3500, -EIO},
     ts      |-> {1000, 2000, 3500},
     fg      |-> {55, 255, -EIO},
     ichg    |-> {1000},
     idis    |-> {0},
     aps     |-> {78},
     reads   |-> {"CAPACITY", "HEALTH"},
     irqs    |-> irq_names,
     writes  |-> {<<"STATUS", POWER_SUPPLY_STATUS_NOT_CHARGING>>,
                  <<"CURRENT_MAX", 300000>>, <<"CURRENT_MAX", 299999>>},
     dt      |-> {Dt(<<>>, 0, <<>>), Dt(GoodOcv, 5000, <<>>),
                  Dt(GoodOcv, 5000, <<20, 1500, 3000>>),
                  Dt(GoodOcv, 4294968, <<>>)}]

\* the register value a read of AXP20X_PWR_OP_MODE returns: the stored bits
\* and the battery-present bit as the hardware drives it (p), or the error
HwOpMode(om, p) == IF p < 0 THEN p ELSE om + p

\* the VBUS register is read only on the bus branch
VbusFor(env, st) ==
    IF Len(axp20x_battery_max_chg_current(0, st, 0).log) = 2 THEN env.vbus ELSE {0}

IoMaxChg(env) ==
    UNION {{[st |-> st, vb |-> vb] : vb \in VbusFor(env, st)} : st \in env.status}

IoReconfig(env) ==
    {[st |-> x[1].st, vb |-> x[1].vb, w1 |-> x[2], w2 |-> x[3]] :
        x \in {y \in IoMaxChg(env) \X env.wr \X env.wr :
                  F(y[1].st) + F(y[1].vb) + F(y[2]) + F(y[3]) <= MaxFaults}}

ReconfigFaults(io) == F(io.st) + F(io.vb) + F(io.w1) + F(io.w2)

IoPoll(env, om, tmin, tmax) ==
    {[mode |-> HwOpMode(om, p), vbat |-> 1000, fg |-> 55, vbat2 |-> 1000,
      ts |-> 1000] :
        p \in env.present \ {AXP20X_PWR_OP_BATT_PRESENT}}
    \cup {[mode |-> HwOpMode(om, x[1]), vbat |-> x[2], fg |-> x[3], vbat2 |-> x[4],
           ts |-> x[5]] :
             x \in {y \in (env.present \cap {AXP20X_PWR_OP_BATT_PRESENT})
                            \X env.vbat \X env.fg
                            \X (IF tmin # 0 \/ tmax # 0 THEN env.vbat2 ELSE {0})
                            \X env.ts :
                       F(y[2]) + F(y[3]) + F(y[4]) <= MaxFaults}}

IoConfig(env, om) ==
    {[mode |-> HwOpMode(om, x[1]), wen |-> x[2], wadc |-> x[3], wvolt |-> x[4]] :
        x \in {y \in (env.present \cup {0}) \X env.wr \X env.wr \X env.wr :
                  F(y[1]) + F(y[2]) + F(y[3]) + F(y[4]) <= MaxFaults}}

(***************************************************************************)
(* The state machine.                                                      *)
(***************************************************************************)
Op(name, psp, arg, ret, log) ==
    [op |-> name, psp |-> psp, arg |-> arg, ret |-> ret, log |-> log]

\* no operation is being observed: the previous one has returned
Idle == Op("idle", "", 0, 0, <<>>)

\* axp20x_battery_poll is not between its two stores; when it is, h is the
\* health it replaced and p the percent it is about to store
NoStore == [busy |-> FALSE, h |-> "Unknown", p |-> 0]

\* the consumer is not reading; while it is, h and p are the values it
\* loaded and pairs the (health, percent) pairs the driver held meanwhile
NoRead == [pc |-> "idle", h |-> "Unknown", p |-> 0, pairs |-> {}]

\* the pair the driver holds, as of its last complete update
Committed(h, p, w) == IF w.busy THEN <<w.h, p>> ELSE <<h, p>>

\* a complete update to pair, seen from a consumer that is reading
Observe(rd, pair) ==
    IF rd.pc = "health" THEN [rd EXCEPT !.pairs = @ \cup {pair}] ELSE rd

\* devm_kzalloc'ed driver record at the start of axp20x_power_probe; the
\* registers hold what the hardware or the boot loader left in them
Init ==
    /\ health = "Unknown"
    /\ percent = 0
    /\ capacity = 0
    /\ charge_user_imax = 0
    /\ tbatt_min = 0
    /\ tbatt_max = 0
    /\ supply = FALSE
    /\ irqs = FALSE
    /\ monitor = FALSE
    /\ opMode \in {0, AXP20X_PWR_OP_CHARGING}
    /\ chrgCtrl1 = 200
    /\ pc = "config"
    /\ last = Idle
    /\ writer = NoStore
    /\ reader = NoRead

\* axp20x_power_probe: axp20x_battery_config and its early return
ProbeConfig(env) ==
    /\ last = Idle
    /\ pc = "config"
    /\ \E dt \in env.dt : \E io \in IoConfig(env, opMode) :
         \E c \in {axp20x_battery_config(dt, tbatt_min, tbatt_max, capacity,
                                          charge_user_imax, chrgCtrl1, io)} :
             /\ tbatt_min' = c.tbatt_min
             /\ tbatt_max' = c.tbatt_max
             /\ capacity' = c.capacity
             /\ charge_user_imax' = c.imax
             /\ chrgCtrl1' = c.chrgCtrl1
             /\ pc' = IF c.ret = 0 THEN "poll" ELSE "failed"
             /\ last' = Op("config", "", dt.capa, c.ret, c.log)
    /\ UNCHANGED <<writer, reader>>
    /\ UNCHANGED <<health, percent, supply, irqs, monitor, opMode>>

\* one run of axp20x_battery_poll; the argument kept in `last` is what the
\* temperature-sensor ADC held during the run
Poll(name, env) ==
    \E io \in IoPoll(env, opMode, tbatt_min, tbatt_max) :
        \E r \in {axp20x_battery_poll(health, percent, tbatt_min, tbatt_max,
                                       supply, io)} :
            /\ health' = r.health
            /\ percent' = r.percent
            /\ last' = Op(name, "", io.ts, 0, r.log)

\* axp20x_power_probe: the first axp20x_battery_poll
ProbePoll(env) ==
    /\ last = Idle
    /\ pc = "poll"
    /\ Poll("poll", env)
    /\ pc' = "register"
    /\ UNCHANGED <<writer, reader>>
    /\ UNCHANGED <<capacity, charge_user_imax, tbatt_min, tbatt_max, supply, irqs,
                   monitor, opMode, chrgCtrl1>>

\* axp20x_power_probe: devm_power_supply_register and its early return
ProbeRegister ==
    /\ last = Idle
    /\ pc = "register"
    /\ \E ok \in BOOLEAN :
         /\ supply' = ok
         /\ pc' = IF ok THEN "reconfig" ELSE "failed"
         /\ last' = Op("register", "", 0, IF ok THEN 0 ELSE -EINVAL, <<>>)
    /\ UNCHANGED <<writer, reader>>
    /\ UNCHANGED <<health, percent, capacity, charge_user_imax, tbatt_min, tbatt_max,
                   irqs, monitor, opMode, chrgCtrl1>>

Reconfig(name, env) ==
    \E io \in IoReconfig(env) :
        \E r \in {axp20x_battery_chg_reconfig(capacity, charge_user_imax, opMode,
                                               chrgCtrl1, io)} :
            /\ opMode' = r.opMode
            /\ chrgCtrl1' = r.chrgCtrl1
            /\ last' = Op(name, "", 0, r.max, r.log)

\* axp20x_power_probe: axp20x_battery_chg_reconfig(power->supply)
ProbeReconfig(env) ==
    /\ last = Idle
    /\ pc = "reconfig"
    /\ Reconfig("reconfig", env)
    /\ pc' = "irqs"
    /\ UNCHANGED <<writer, reader>>
    /\ UNCHANGED <<health, percent, capacity, charge_user_imax, tbatt_min, tbatt_max,
                   supply, irqs, monitor>>

\* axp20x_power_probe: the devm_request_any_context_irq loop
ProbeRequestIrqs ==
    /\ last = Idle
    /\ pc = "irqs"
    /\ irqs' = TRUE
    /\ pc' = "arm"
    /\ last' = Op("request_irqs", "", 0, 0, <<>>)
    /\ UNCHANGED <<writer, reader>>
    /\ UNCHANGED <<health, percent, capacity, charge_user_imax, tbatt_min, tbatt_max,
                   supply, monitor, opMode, chrgCtrl1>>

\* axp20x_power_probe: schedule_delayed_work and return 0
ProbeArm ==
    /\ last = Idle
    /\ pc = "arm"
    /\ monitor' = TRUE
    /\ pc' = "done"
    /\ last' = Op("arm", "", 0, 0, <<>>)
    /\ UNCHANGED <<writer, reader>>
    /\ UNCHANGED <<health, percent, capacity, charge_user_imax, tbatt_min, tbatt_max,
                   supply, irqs, opMode, chrgCtrl1>>

\* variant: a cycle whose first read failed does not re-arm the work
MonitorGivesUpOnAbort(env) ==
    /\ last = Idle
    /\ monitor
    /\ Poll("monitor", env)
    /\ monitor' = (last'.log[1].ret >= 0)
    /\ UNCHANGED <<writer, reader>>
    /\ UNCHANGED <<capacity, charge_user_imax, tbatt_min, tbatt_max, supply, irqs,
                   opMode, chrgCtrl1, pc>>

\* axp20x_battery_monitor: the delayed work runs, polls and re-arms itself
Monitor(env) ==
    /\ last = Idle
    /\ monitor
    /\ Poll("monitor", env)
    /\ monitor' = TRUE
    /\ UNCHANGED <<writer, reader>>
    /\ UNCHANGED <<capacity, charge_user_imax, tbatt_min, tbatt_max, supply, irqs,
                   opMode, chrgCtrl1, pc>>

\* .external_power_changed = axp20x_battery_chg_reconfig
ExternalPowerChanged(env) ==
    /\ last = Idle
    /\ supply
    /\ Reconfig("external_power_changed", env)
    /\ UNCHANGED <<writer, reader>>
    /\ UNCHANGED <<health, percent, capacity, charge_user_imax, tbatt_min, tbatt_max,
                   supply, irqs, monitor, pc>>

SetPropertyWith(psp, val, io) ==
    \E r \in {axp20x_battery_power_set_property(psp, val, capacity,
                  charge_user_imax, opMode, chrgCtrl1, io)} :
        /\ charge_user_imax' = r.imax
        /\ opMode' = r.opMode
        /\ chrgCtrl1' = r.chrgCtrl1
        /\ last' = Op("set_property", psp, val, r.ret, r.log)

NoIo == [st |-> 0, vb |-> 0, w |-> 0, st2 |-> 0, vb2 |-> 0, w1 |-> 0, w2 |-> 0]

\* the results set_property is given: those of its own accesses (a: status and
\* VBUS reads, w: update) and, where it goes on to axp20x_battery_chg_reconfig,
\* those of that call (b); accesses it does not make have no result
SetPropertyIo(env, psp, val) ==
    IF psp = "STATUS" /\ val = POWER_SUPPLY_STATUS_CHARGING
    THEN \E a \in IoMaxChg(env) :
           IF axp20x_battery_max_chg_current(capacity, a.st, a.vb).ret > 0
           THEN \/ /\ F(a.st) + F(a.vb) < MaxFaults
                   /\ SetPropertyWith(psp, val,
                         [NoIo EXCEPT !.st = a.st, !.vb = a.vb, !.w = -EIO])
                \/ \E b \in IoReconfig(env) :
                     /\ F(a.st) + F(a.vb) + ReconfigFaults(b) <= MaxFaults
                     /\ SetPropertyWith(psp, val,
                           [st |-> a.st, vb |-> a.vb, w |-> 0, st2 |-> b.st,
                            vb2 |-> b.vb, w1 |-> b.w1, w2 |-> b.w2])
           ELSE /\ F(a.st) + F(a.vb) <= MaxFaults
                /\ SetPropertyWith(psp, val, [NoIo EXCEPT !.st = a.st, !.vb = a.vb])
    ELSE IF psp = "CURRENT_MAX"
    THEN IF set_property_current_max(val, capacity, charge_user_imax, opMode,
                                     chrgCtrl1, NoIo).ret # 0
         THEN SetPropertyWith(psp, val, NoIo)
         ELSE \E b \in IoReconfig(env) :
                SetPropertyWith(psp, val,
                    [NoIo EXCEPT !.st2 = b.st, !.vb2 = b.vb, !.w1 = b.w1, !.w2 = b.w2])
    ELSE IF axp20x_battery_power_set_property(psp, val, capacity, charge_user_imax,
                                              opMode, chrgCtrl1, NoIo).log = <<>>
    THEN SetPropertyWith(psp, val, NoIo)
    ELSE \E w \in env.wr : SetPropertyWith(psp, val, [NoIo EXCEPT !.w = w])

\* .set_property = axp20x_battery_power_set_property
SetProperty(env) ==
    /\ last = Idle
    /\ supply
    /\ \E pv \in env.writes : SetPropertyIo(env, pv[1], pv[2])
    /\ UNCHANGED <<writer, reader>>
    /\ UNCHANGED <<health, percent, capacity, tbatt_min, tbatt_max, supply, irqs,
                   monitor, pc>>

\* an interrupt fires: the handler irq_funcs pairs with its name runs
Irq(env) ==
    /\ last = Idle
    /\ irqs
    /\ \E name \in env.irqs : \E w \in env.wr :
         \E r \in {irq_funcs(name, health, opMode, w)} :
             /\ health' = r.health
             /\ opMode' = r.opMode
             /\ last' = Op("irq", name, 0, 0, r.log)
    /\ reader' = Observe(reader, <<health', percent>>)
    /\ writer' = writer
    /\ UNCHANGED <<percent, capacity, charge_user_imax, tbatt_min, tbatt_max, supply,
                   irqs, monitor, chrgCtrl1, pc>>

\* the operation returns to its caller: its log is no longer observed
Return ==
    /\ last # Idle
    /\ ~writer.busy
    /\ last' = Idle
    /\ UNCHANGED <<writer, reader>>
    /\ UNCHANGED <<health, percent, capacity, charge_user_imax, tbatt_min, tbatt_max,
                   supply, irqs, monitor, opMode, chrgCtrl1, pc>>

NextIn(env) ==
    \/ ProbeConfig(env)
    \/ ProbePoll(env)
    \/ ProbeRegister
    \/ ProbeReconfig(env)
    \/ ProbeRequestIrqs
    \/ ProbeArm
    \/ Monitor(env)
    \/ ExternalPowerChanged(env)
    \/ SetProperty(env)
    \/ Irq(env)
    \/ Return

\* the driver under a varying power source
Next == NextIn(SourceEnv)

Spec == Init /\ [][Next]_vars

\* the driver under a varying battery
NextBattery == NextIn(BatteryEnv)

SpecBattery == Init /\ [][NextBattery]_vars

\* the driver with a calibrated battery, with its scheduling: the workqueue
\* runs the armed delayed work once its delay has expired, however often
\* other callbacks run in between, and every callback returns
MonitorEnv ==
    [BatteryEnv EXCEPT !.status = {192},
                       !.vbat = {1000, 3500, -EIO},
                       !.vbat2 = {2000, -EIO},
                       !.ts = {2000},
                       !.irqs = {"BATT_REMOVAL", "BATT_ACTIVATED"},
                       !.writes = {<<"CURRENT_MAX", 300000>>},
                       !.dt = {Dt(GoodOcv, 5000, <<20, 1500, 3000>>)}]

NextMonitor == NextIn(MonitorEnv)

SpecMonitor ==
    /\ Init /\ [][NextMonitor]_vars
    /\ SF_vars(Monitor(MonitorEnv))
    /\ WF_vars(Return)

(***************************************************************************)
(* axp20x_battery_power_get_property                                       *)
(*   io = [reg, vbat, ichg, idis]: the result of the regmap_read the case  *)
(*   makes and the contents of the ADC registers it may read (a negative   *)
(*   value: the access fails).  Result: the return value and the log,      *)
(*   which ends with the value stored in val->intval when one is stored.   *)
(***************************************************************************)
\* TODO: convert uV to degrees C
axp20x_battery_uv_to_temp(uv) == uv

\* a property decoded from one regmap_read
get_from_reg(name, res, v) ==
    IF res < 0 THEN [ret |-> res, log |-> <<Rd(name, res)>>]
    ELSE [ret |-> 0, log |-> <<Rd(name, res), Out(v)>>]

\* a property decoded from one axp20x_read_variable_width, after the reads
\* in before
get_from_adc(before, name, res, scale) ==
    IF res < 0 THEN [ret |-> res, log |-> before \o <<Rd(name, res)>>]
    ELSE [ret |-> 0, log |-> before \o <<Rd(name, res), Out(res * scale)>>]

\* case POWER_SUPPLY_PROP_VOLTAGE_MAX_DESIGN
get_voltage_max_design(res) ==
    LET f == BitAnd(res, AXP20X_CHRG_CTRL1_TGT_VOLT)
    IN  get_from_reg("CHRG_CTRL1", res,
            CASE f = AXP20X_CHRG_CTRL1_TGT_4_1V  -> 4100000
              [] f = AXP20X_CHRG_CTRL1_TGT_4_15V -> 4150000
              [] f = AXP20X_CHRG_CTRL1_TGT_4_2V  -> 4200000
              [] f = AXP20X_CHRG_CTRL1_TGT_4_36V -> 4360000)

\* case POWER_SUPPLY_PROP_STATUS
get_status(p, io) ==
    LET rs == <<Rd("PWR_INPUT_STATUS", io.reg)>>
        rd == rs \o <<Rd("BATT_DISCHRG_I_H", io.idis)>>
    IN  IF io.reg < 0 THEN [ret |-> io.reg, log |-> rs]
        ELSE IF BitAnd(io.reg, AXP20X_PWR_STATUS_BAT_CHARGING) # 0
        THEN [ret |-> 0, log |-> rs \o <<Out(POWER_SUPPLY_STATUS_CHARGING)>>]
        ELSE IF io.idis < 0 THEN [ret |-> io.idis, log |-> rd]
        ELSE [ret |-> 0,
              log |-> rd \o <<Out(IF io.idis * 500 < 2000 /\ p = 100
                                  THEN POWER_SUPPLY_STATUS_FULL
                                  ELSE IF io.idis * 500 < 2000
                                  THEN POWER_SUPPLY_STATUS_NOT_CHARGING
                                  ELSE POWER_SUPPLY_STATUS_DISCHARGING)>>]

\* case POWER_SUPPLY_PROP_CURRENT_NOW
get_current_now(io) ==
    LET rs == <<Rd("PWR_INPUT_STATUS", io.reg)>>
    IN  IF io.reg < 0 THEN [ret |-> io.reg, log |-> rs]
        ELSE IF BitAnd(io.reg, AXP20X_PWR_STATUS_BAT_CHARGING) # 0
        THEN get_from_adc(rs, "BATT_CHRG_I_H", io.ichg, 500)
        ELSE get_from_adc(rs, "BATT_DISCHRG_I_H", io.idis, 500)

\* case POWER_SUPPLY_PROP_TEMP
get_temp(io) ==
    LET r == get_from_adc(<<>>, "BATT_V_H", io.vbat, 1)
    IN  IF io.vbat < 0 THEN r
        ELSE [ret |-> 0,
              log |-> <<Rd("BATT_V_H", io.vbat),
                        Out(axp20x_battery_uv_to_temp(io.vbat * 800))>>]

axp20x_battery_power_get_property(psp, h, p, cap, tmin, tmax, io) ==
    CASE psp = "CURRENT_MAX" ->
            get_from_reg("CHRG_CTRL1", io.reg,
                BitAnd(io.reg, AXP20X_CHRG_CTRL1_TGT_CURR) * 100000 + 300000)
      [] psp = "VOLTAGE_MAX_DESIGN" -> get_voltage_max_design(io.reg)
      [] psp = "VOLTAGE_MIN_DESIGN" ->
            get_from_reg("APS_WARN_L2", io.reg, 2867200 + 1400 * io.reg * 4)
      [] psp = "TECHNOLOGY" ->
            [ret |-> 0, log |-> <<Out(POWER_SUPPLY_TECHNOLOGY_LION)>>]
      [] psp \in {"PRESENT", "ONLINE"} ->
            get_from_reg("PWR_OP_MODE", io.reg,
                IF BitAnd(io.reg, AXP20X_PWR_OP_BATT_PRESENT) # 0 THEN 1 ELSE 0)
      [] psp = "STATUS" -> get_status(p, io)
      [] psp = "CURRENT_NOW" -> get_current_now(io)
      [] psp = "HEALTH" -> [ret |-> 0, log |-> <<OutHealth(h)>>]
      [] psp = "VOLTAGE_NOW" -> get_from_adc(<<>>, "BATT_V_H", io.vbat, 1100)
      [] psp = "CHARGE_FULL_DESIGN" -> [ret |-> 0, log |-> <<Out(cap)>>]
      [] psp = "CAPACITY" ->
            get_from_reg("FG_RES", io.reg, BitAnd(io.reg, AXP20X_FG_PERCENT))
      [] psp = "TEMP" -> get_temp(io)
      [] psp = "TEMP_ALERT_MIN" ->
            [ret |-> 0, log |-> <<Out(axp20x_battery_uv_to_temp(tmin))>>]
      [] psp = "TEMP_ALERT_MAX" ->
            [ret |-> 0, log |-> <<Out(axp20x_battery_uv_to_temp(tmax))>>]
      [] OTHER -> [ret |-> -EINVAL, log |-> <<>>]

\* what the register read by the case of psp holds
RegFor(env, psp, om, cc1) ==
    CASE psp \in {"CURRENT_MAX", "VOLTAGE_MAX_DESIGN"} -> {cc1} \cup (env.wr \ {0})
      [] psp = "VOLTAGE_MIN_DESIGN" -> env.aps
      [] psp \in {"PRESENT", "ONLINE"} -> {HwOpMode(om, x) : x \in env.present}
      [] psp \in {"STATUS", "CURRENT_NOW"} -> env.status
      [] psp = "CAPACITY" -> env.fg
      [] OTHER -> {0}

\* the ADC contents offered to a read of psp: those it may look at, and the
\* temperature sensor's for a read of the temperature
IoGet(env, psp, om, cc1) ==
    {[reg |-> x[1], vbat |-> x[2], ichg |-> x[3], idis |-> x[4], ts |-> x[5]] :
        x \in {y \in RegFor(env, psp, om, cc1)
                      \X (IF psp \in {"VOLTAGE_NOW", "TEMP"} THEN env.vbat ELSE {0})
                      \X (IF psp = "CURRENT_NOW" THEN env.ichg ELSE {0})
                      \X (IF psp \in {"CURRENT_NOW", "STATUS"} THEN env.idis ELSE {0})
                      \X (IF psp = "TEMP" THEN env.ts ELSE {0}) :
                  F(y[1]) + F(y[2]) + F(y[3]) + F(y[4]) <= MaxFaults}}

\* .get_property = axp20x_battery_power_get_property; the argument kept in
\* `last` is what the temperature-sensor ADC held during the read
GetProperty(env) ==
    /\ last = Idle
    /\ supply
    /\ \E psp \in env.reads : \E io \in IoGet(env, psp, opMode, chrgCtrl1) :
         \E r \in {axp20x_battery_power_get_property(psp, health, percent, capacity,
                         tbatt_min, tbatt_max, io)} :
             last' = Op("get_property", psp, io.ts, r.ret, r.log)
    /\ UNCHANGED <<health, percent, capacity, charge_user_imax, tbatt_min, tbatt_max,
                   supply, irqs, monitor, opMode, chrgCtrl1, pc, writer, reader>>

\* The telemetry consumer reads every property, over the corners of the
\* 12-bit ADC range, and writes the design voltages.
TelemetryEnv ==
    [SourceEnv EXCEPT !.status = {0, AXP20X_PWR_STATUS_BAT_CHARGING, -EIO},
                      !.vbus = {96},
                      !.vbat = {0, 1, 2048, 4095, -EIO},
                      !.ichg = {0, 1, 4095, -EIO},
                      !.idis = {0, 3, 4, 4095, -EIO},
                      !.ts = {0, 2000, 4095},
                      !.fg = {55, 100, -EIO},
                      !.irqs = {"BATT_REMOVAL"},
                      !.reads = {"CURRENT_MAX", "VOLTAGE_MAX_DESIGN",
                                 "VOLTAGE_MIN_DESIGN", "TECHNOLOGY", "PRESENT",
                                 "ONLINE", "STATUS", "CURRENT_NOW", "HEALTH",
                                 "VOLTAGE_NOW", "CHARGE_FULL_DESIGN", "CAPACITY",
                                 "TEMP", "TEMP_ALERT_MIN", "TEMP_ALERT_MAX",
                                 "POWER_NOW"},
                      !.writes = ({"VOLTAGE_MAX_DESIGN"} \X
                                     {4100000, 4150000, 4200000, 4360000, 4000000})
                                 \cup {<<"CURRENT_MAX", 500000>>},
                      !.dt = {Dt(GoodOcv, 5000, <<>>),
                              Dt(GoodOcv, 5000, <<20, 1500, 3000>>)}]

NextTelemetry ==
    \/ NextIn(TelemetryEnv)
    \/ GetProperty(TelemetryEnv)

\* the driver and a telemetry consumer that reads and writes properties
SpecTelemetry == Init /\ [][NextTelemetry]_vars

(***************************************************************************)
(* Power management.  axp20x_battery_power_driver lists the callbacks the  *)
(* platform bus may call: .remove, .suspend, .resume and .shutdown are     *)
(* commented out, so the bus finds none and the functions                  *)
(* axp20x_power_suspend and axp20x_power_resume are never called.  The     *)
(* host suspends a bound device (pc = "done") and resumes it later; pc     *)
(* holds "suspended" in between.                                           *)
(***************************************************************************)
axp20x_battery_power_driver ==
    [probe |-> TRUE, remove |-> FALSE, suspend |-> FALSE, resume |-> FALSE,
     shutdown |-> FALSE]

\* axp20x_power_suspend: cancel_delayed_work_sync
axp20x_power_suspend(m) == FALSE

\* the host suspends: the bus calls the driver's .suspend, if it has one
Suspend ==
    /\ last = Idle
    /\ pc = "done"
    /\ pc' = "suspended"
    /\ monitor' = IF axp20x_battery_power_driver.suspend
                  THEN axp20x_power_suspend(monitor) ELSE monitor
    /\ last' = Op("suspend", "", 0, 0, <<>>)
    /\ UNCHANGED <<writer, reader>>
    /\ UNCHANGED <<health, percent, capacity, charge_user_imax, tbatt_min, tbatt_max,
                   supply, irqs, opMode, chrgCtrl1>>

\* axp20x_power_resume: axp20x_battery_poll, then schedule_delayed_work
axp20x_power_resume(env) ==
    /\ Poll("resume", env)
    /\ monitor' = TRUE

\* the host resumes: the bus calls the driver's .resume, if it has one
Resume(env) ==
    /\ last = Idle
    /\ pc = "suspended"
    /\ pc' = "done"
    /\ IF axp20x_battery_power_driver.resume
       THEN axp20x_power_resume(env)
       ELSE /\ last' = Op("resume", "", 0, 0, <<>>)
            /\ UNCHANGED <<health, percent, monitor>>
    /\ UNCHANGED <<writer, reader>>
    /\ UNCHANGED <<capacity, charge_user_imax, tbatt_min, tbatt_max, supply, irqs,
                   opMode, chrgCtrl1>>

NextSuspend ==
    \/ NextMonitor
    \/ Suspend
    \/ Resume(MonitorEnv)

\* the driver on a host that suspends and resumes
SpecSuspend == Init /\ [][NextSuspend]_vars

(***************************************************************************)
(* The stores of axp20x_battery_poll one at a time.  The driver takes no   *)
(* lock: the monitor runs on a workqueue and a telemetry consumer calls    *)
(* get_property from its own thread, so the consumer's loads of            *)
(* power->health (POWER_SUPPLY_PROP_HEALTH) and of power->percent          *)
(* (POWER_SUPPLY_PROP_STATUS) fall anywhere between the stores.            *)
(***************************************************************************)
\* axp20x_battery_monitor up to "power->health = health"; a cycle that
\* finds the pair unchanged, or aborts, stores nothing and completes
MonitorStoreHealth(env) ==
    /\ last = Idle
    /\ monitor
    /\ \E io \in IoPoll(env, opMode, tbatt_min, tbatt_max) :
         \E r \in {axp20x_battery_poll(health, percent, tbatt_min, tbatt_max,
                                        supply, io)} :
             IF r.health # health \/ r.percent # percent
             THEN /\ health' = r.health
                  /\ writer' = [busy |-> TRUE, h |-> health, p |-> r.percent]
                  /\ last' = Op("monitor_store", "", io.ts, 0, r.log)
             ELSE /\ health' = health
                  /\ writer' = writer
                  /\ last' = Op("monitor", "", io.ts, 0, r.log)
    /\ monitor' = TRUE
    /\ UNCHANGED <<percent, capacity, charge_user_imax, tbatt_min, tbatt_max, supply,
                   irqs, opMode, chrgCtrl1, pc, reader>>

\* "power->percent = percent", the notification and the re-arming
MonitorStorePercent ==
    /\ writer.busy
    /\ percent' = writer.p
    /\ writer' = NoStore
    /\ last' = [last EXCEPT !.op = "monitor"]
    /\ reader' = Observe(reader, <<health, writer.p>>)
    /\ monitor' = TRUE
    /\ UNCHANGED <<health, capacity, charge_user_imax, tbatt_min, tbatt_max, supply,
                   irqs, opMode, chrgCtrl1, pc>>

\* get_property(POWER_SUPPLY_PROP_HEALTH): val->intval = power->health
ReadHealth ==
    /\ supply
    /\ reader.pc = "idle"
    /\ reader' = [pc |-> "health", h |-> health, p |-> 0,
                  pairs |-> {Committed(health, percent, writer)}]
    /\ UNCHANGED <<health, percent, capacity, charge_user_imax, tbatt_min, tbatt_max,
                   supply, irqs, monitor, opMode, chrgCtrl1, pc, last, writer>>

\* get_property(POWER_SUPPLY_PROP_STATUS): the load of power->percent
ReadPercent ==
    /\ reader.pc = "health"
    /\ reader' = [reader EXCEPT !.pc = "done", !.p = percent,
                                !.pairs = @ \cup {Committed(health, percent, writer)}]
    /\ UNCHANGED <<health, percent, capacity, charge_user_imax, tbatt_min, tbatt_max,
                   supply, irqs, monitor, opMode, chrgCtrl1, pc, last, writer>>

\* the consumer has its pair and goes away
ReadReturn ==
    /\ reader.pc = "done"
    /\ reader' = NoRead
    /\ UNCHANGED <<health, percent, capacity, charge_user_imax, tbatt_min, tbatt_max,
                   supply, irqs, monitor, opMode, chrgCtrl1, pc, last, writer>>

RaceEnv ==
    [MonitorEnv EXCEPT !.wr = {0},
                       !.present = {AXP20X_PWR_OP_BATT_PRESENT},
                       !.vbat = {1000, 3500},
                       !.vbat2 = {2000},
                       !.fg = {55, 100},
                       !.irqs = {"BATT_ACTIVATED"}]

NextRace ==
    \/ ProbeConfig(RaceEnv)
    \/ ProbePoll(RaceEnv)
    \/ ProbeRegister
    \/ ProbeReconfig(RaceEnv)
    \/ ProbeRequestIrqs
    \/ ProbeArm
    \/ MonitorStoreHealth(RaceEnv)
    \/ MonitorStorePercent
    \/ Irq(RaceEnv)
    \/ ReadHealth
    \/ ReadPercent
    \/ ReadReturn
    \/ Return

\* the driver and a telemetry consumer, store by store and load by load
SpecRace == Init /\ [][NextRace]_vars

(***************************************************************************)
(* axp20x_battery_max_chg_current on its own, over every value of the two  *)
(* registers it reads: the probe runs up to the registration, and the      *)
(* function is then applied where axp20x_battery_chg_reconfig first calls  *)
(* it.                                                                     *)
(***************************************************************************)
MaxChgEnv ==
    [SourceEnv EXCEPT !.status = (0..255) \cup {-EIO},
                      !.vbus = (0..255) \cup {-EIO},
                      !.dt = {Dt(<<>>, 0, <<>>), Dt(GoodOcv, 1, <<>>),
                              Dt(GoodOcv, 400, <<>>), Dt(GoodOcv, 5000, <<>>)}]

MaxChgCurrent ==
    /\ last = Idle
    /\ pc = "reconfig"
    /\ \E a \in IoMaxChg(MaxChgEnv) :
         \E r \in {axp20x_battery_max_chg_current(capacity, a.st, a.vb)} :
             last' = Op("max_chg_current", "", 0, r.ret, r.log)
    /\ UNCHANGED <<writer, reader>>
    /\ UNCHANGED <<health, percent, capacity, charge_user_imax, tbatt_min, tbatt_max,
                   supply, irqs, monitor, opMode, chrgCtrl1, pc>>

NextMaxChg ==
    \/ ProbeConfig(MaxChgEnv)
    \/ ProbePoll(MaxChgEnv)
    \/ ProbeRegister
    \/ MaxChgCurrent
    \/ Return

SpecMaxChg == Init /\ [][NextMaxChg]_vars

(***************************************************************************)
(* The specification's vocabulary, read off the access log of `last`.      *)
(***************************************************************************)
\* the number of log entries of a kind, and the accesses made to a register
Count(log, kind) == Cardinality({i \in DOMAIN log : log[i].k = kind})

Accesses(log, reg) == {i \in DOMAIN log : log[i].reg = reg}

\* the operations that are one run of reconfigure_charge_current()
ReconfigOps == {"reconfig", "external_power_changed"}

\* the operations that are one poll cycle
PollOps == {"poll", "monitor"}

\* bit n of the register value x
Bit(x, n) == (x \div (2 ^ n)) % 2 = 1

\* mains (bits 7, 6) and bus (bits 5, 4) present and available in the status
MainsReady(st) == Bit(st, 7) /\ Bit(st, 6)

BusReady(st) == Bit(st, 5) /\ Bit(st, 4)

\* the policy table: the maximum charge current for a source status st, a
\* VBUS management register vb and a design capacity cap (uAh)
PolicyTable(cap, st, vb) ==
    IF MainsReady(st) THEN cap \div 2
    ELSE IF BusReady(st)
    THEN CASE vb % 4 = 2 -> 0
           [] vb % 4 = 1 -> 300000
           [] vb % 4 = 0 -> 600000
           [] vb % 4 = 3 -> cap \div 2
    ELSE 0

\* log[i] is the source-status read of max_charge_current(), it succeeded,
\* and so did the bus-limit read that follows it when the bus is the source
ReadsOk(log, i) ==
    /\ Len(log) >= i
    /\ log[i].k = "read" /\ log[i].reg = "PWR_INPUT_STATUS" /\ log[i].val >= 0
    /\ (~MainsReady(log[i].val) /\ BusReady(log[i].val)) =>
          /\ Len(log) > i
          /\ log[i + 1].k = "read" /\ log[i + 1].reg = "VBUS_IPSOUT_MGMT"
          /\ log[i + 1].val >= 0

\* the position after the reads of max_charge_current() that start at log[i]
AfterReads(log, i) ==
    IF Len(log) > i /\ log[i + 1].reg = "VBUS_IPSOUT_MGMT" THEN i + 2 ELSE i + 1

\* what the policy table gives for the values read at log[i]
TableAt(cap, log, i) ==
    PolicyTable(cap, log[i].val,
                IF Len(log) > i /\ log[i + 1].reg = "VBUS_IPSOUT_MGMT"
                THEN log[i + 1].val ELSE 0)

\* log[k] is a read-modify-write of the charging-enable bit (bit 6 of the
\* operating-mode register) that sets (on) or clears it
EnableWrite(log, k, on) ==
    /\ Len(log) >= k
    /\ log[k].k = "update" /\ log[k].reg = "PWR_OP_MODE" /\ log[k].mask = 64
    /\ Bit(log[k].val, 6) = on

Min(a, b) == IF a < b THEN a ELSE b

\* the register x with bit 6 set / cleared
WithBit6(x) == IF Bit(x, 6) THEN x ELSE x + 64

WithoutBit6(x) == IF Bit(x, 6) THEN x - 64 ELSE x

(***************************************************************************)
(* C1.  max_charge_current() matches the policy table for every status     *)
(* register value (so every combination of mains present, mains available, *)
(* bus present, bus available), every bus current-limit field and every    *)
(* design capacity: whenever its register reads succeed, the value it      *)
(* returns is capacity/2 with mains present and available; otherwise, with *)
(* the bus present and available, 0, 300000, 600000 or capacity/2 for the  *)
(* 100 mA, 500 mA, 900 mA and unlimited fields; otherwise 0.  Mains wins   *)
(* over the bus when both are present and available.                       *)
(***************************************************************************)
C1_PolicyTable ==
    (last.op = "max_chg_current" /\ ReadsOk(last.log, 1)) =>
        last.ret = TableAt(capacity, last.log, 1)

\* mains and bus both present and available, bus limited to 500 mA, 5000 mAh:
\* the answer is the mains one
C1_Witness ==
    /\ last.op = "max_chg_current"
    /\ last.log[1].val = 240
    /\ capacity = 5000000
    /\ last.ret = 2500000

(***************************************************************************)
(* C2.  When max_charge_current() returns m > 0, a run of                  *)
(* reconfigure_charge_current() takes c = min(m, user_current_ceiling)     *)
(* clamped into [300000, 1800000], writes the 4-bit target-current field   *)
(* with (c - 300000) / 100000, a value in 0..15, and then sets the         *)
(* charging-enable bit; also when capacity/2 is below 300000.              *)
(***************************************************************************)
C2_ClampedCurrentWritten ==
    (last.op \in ReconfigOps /\ ReadsOk(last.log, 2)
        /\ TableAt(capacity, last.log, 2) > 0) =>
        LET m == TableAt(capacity, last.log, 2)
            c == Min(m, charge_user_imax)
            clamped == IF c < 300000 THEN 300000
                       ELSE IF c > 1800000 THEN 1800000 ELSE c
            idx == (clamped - 300000) \div 100000
            k == AfterReads(last.log, 2)
        IN  /\ Len(last.log) >= k + 1
            /\ last.log[k].k = "update" /\ last.log[k].reg = "CHRG_CTRL1"
            /\ last.log[k].mask = 15
            /\ last.log[k].val % 16 = idx
            /\ last.log[k].ret = 0 => chrgCtrl1 % 16 = idx
            /\ EnableWrite(last.log, k + 1, TRUE)

\* 400 mAh on mains: m = 200000, below the range; the field written is 15
C2_Witness ==
    /\ last.op \in ReconfigOps
    /\ capacity = 400000
    /\ ReadsOk(last.log, 2)
    /\ TableAt(capacity, last.log, 2) = 200000
    /\ last.log[3].reg = "CHRG_CTRL1" /\ last.log[3].ret = 0
    /\ chrgCtrl1 % 16 = 15

(***************************************************************************)
(* C3.  When max_charge_current() returns 0, a run of                      *)
(* reconfigure_charge_current() does one register write, the one that      *)
(* clears the charging-enable bit (the bit is clear afterwards unless that *)
(* write fails, and the register's other bits are kept), and it makes no   *)
(* access to the target-current register: the target-current and           *)
(* target-voltage fields are as they were.                                 *)
(***************************************************************************)
C3_Step ==
    (last = Idle /\ last'.op \in ReconfigOps /\ ReadsOk(last'.log, 2)
        /\ TableAt(capacity, last'.log, 2) = 0) =>
        LET k == AfterReads(last'.log, 2)
        IN  /\ EnableWrite(last'.log, k, FALSE)
            /\ Count(last'.log, "update") = 1
            /\ Accesses(last'.log, "CHRG_CTRL1") = {}
            /\ chrgCtrl1' = chrgCtrl1
            /\ opMode' = IF last'.log[k].ret = 0 THEN WithoutBit6(opMode) ELSE opMode

C3_DisableLeavesCurrent == [][C3_Step]_vars

\* on battery with charging enabled: the bit has been cleared
C3_Witness ==
    /\ last.op = "external_power_changed"
    /\ ReadsOk(last.log, 2)
    /\ TableAt(capacity, last.log, 2) = 0
    /\ EnableWrite(last.log, 3, FALSE) /\ last.log[3].ret = 0
    /\ ~Bit(opMode, 6)
    /\ chrgCtrl1 % 16 = 15

(***************************************************************************)
(* C4.  Every run of reconfigure_charge_current() ends by notifying the    *)
(* telemetry consumer, on every path, the one where reading the source     *)
(* status fails included.                                                  *)
(***************************************************************************)
C4_AlwaysNotifies ==
    last.op \in ReconfigOps =>
        /\ Len(last.log) > 0
        /\ last.log[Len(last.log)].k = "notify"

\* the status read failed and the run ended there
C4_Witness ==
    /\ last.op \in ReconfigOps
    /\ Len(last.log) = 2
    /\ last.log[2].reg = "PWR_INPUT_STATUS" /\ last.log[2].ret < 0
    /\ Count(last.log, "notify") = 0

(***************************************************************************)
(* C5.  The 'set target charge current' write accepts exactly the values   *)
(* in [300000, 1800000]: those return success, every other value returns   *)
(* invalid-argument.                                                       *)
(***************************************************************************)
C5_AcceptsExactlyRange ==
    (last.op = "set_property" /\ last.psp = "CURRENT_MAX") =>
        IF last.arg >= 300000 /\ last.arg <= 1800000
        THEN last.ret = 0
        ELSE last.ret = -22

\* 1800001 was accepted and stored
C5_Witness ==
    /\ last.op = "set_property" /\ last.psp = "CURRENT_MAX"
    /\ last.arg = 1800001
    /\ last.ret = 0
    /\ charge_user_imax = 1800001

(***************************************************************************)
(* C6.  An accepted 'set target charge current' write stores the value in  *)
(* user_current_ceiling and then runs reconfigure_charge_current() exactly *)
(* once (the run already works with the stored value: with a source whose  *)
(* maximum is m and min(m, value) in the representable range, the field it *)
(* writes is the step of min(m, value)); a rejected write returns          *)
(* invalid-argument, leaves user_current_ceiling, the target-current       *)
(* register and the charging-enable bit as they were, touches no register  *)
(* and emits no notification.                                              *)
(***************************************************************************)
C6_Step ==
    (last = Idle /\ last'.op = "set_property" /\ last'.psp = "CURRENT_MAX") =>
        IF last'.ret = 0
        THEN /\ charge_user_imax' = last'.arg
             /\ Count(last'.log, "call") = 1
             /\ last'.log[1] = Call("axp20x_battery_chg_reconfig")
             /\ (ReadsOk(last'.log, 2)
                   /\ Min(TableAt(capacity, last'.log, 2), last'.arg) >= 300000) =>
                   LET c == Min(TableAt(capacity, last'.log, 2), last'.arg)
                       k == AfterReads(last'.log, 2)
                   IN  /\ last'.log[k].reg = "CHRG_CTRL1"
                       /\ last'.log[k].val = Min(15, (c - 300000) \div 100000)
        ELSE /\ last'.ret = -22
             /\ charge_user_imax' = charge_user_imax
             /\ chrgCtrl1' = chrgCtrl1
             /\ opMode' = opMode
             /\ last'.log = <<>>

C6_StoreThenReconfigure == [][C6_Step]_vars

\* 5000 mAh on mains, ceiling lowered to 300000: the field goes to step 0
C6_Witness ==
    /\ last.op = "set_property" /\ last.psp = "CURRENT_MAX"
    /\ last.arg = 300000 /\ last.ret = 0
    /\ capacity = 5000000
    /\ charge_user_imax = 300000
    /\ ReadsOk(last.log, 2)
    /\ TableAt(capacity, last.log, 2) = 2500000
    /\ last.log[3].reg = "CHRG_CTRL1" /\ last.log[3].val = 0 /\ last.log[3].ret = 0
    /\ chrgCtrl1 % 16 = 0

(***************************************************************************)
(* C7.  A 'set charging enabled' write requesting Charging: when           *)
(* max_charge_current() is 0 it fails with the busy error and changes      *)
(* nothing (no register is written; the charging-enable bit, the           *)
(* target-current register and user_current_ceiling are as they were);     *)
(* when max_charge_current() is positive it writes the charging-enable bit *)
(* set and then, unless that write fails (the error is returned and        *)
(* nothing else is done), runs reconfigure_charge_current() once and       *)
(* returns success; the bit is set when that run begins.                   *)
(***************************************************************************)
C7_Step ==
    (last = Idle /\ last'.op = "set_property" /\ last'.psp = "STATUS"
        /\ last'.arg = 1 /\ ReadsOk(last'.log, 1)) =>
        LET m == TableAt(capacity, last'.log, 1)
            k == AfterReads(last'.log, 1)
            log == last'.log
        IN  /\ charge_user_imax' = charge_user_imax
            /\ IF m = 0
               THEN /\ last'.ret = -16
                    /\ Len(log) = k - 1
                    /\ opMode' = opMode
                    /\ chrgCtrl1' = chrgCtrl1
               ELSE /\ EnableWrite(log, k, TRUE)
                    /\ IF log[k].ret = 0
                       THEN /\ last'.ret = 0
                            /\ Len(log) > k
                            /\ log[k + 1] = Call("axp20x_battery_chg_reconfig")
                            /\ Count(log, "call") = 1
                            /\ Count(log, "update") = 1 => opMode' = WithBit6(opMode)
                       ELSE /\ last'.ret = log[k].ret
                            /\ Len(log) = k
                            /\ opMode' = opMode
                            /\ chrgCtrl1' = chrgCtrl1

C7_EnableNeedsSource == [][C7_Step]_vars

\* refused on battery, with the enable bit clear before and after
C7_Witness ==
    /\ last.op = "set_property" /\ last.psp = "STATUS" /\ last.arg = 1
    /\ ReadsOk(last.log, 1)
    /\ TableAt(capacity, last.log, 1) = 0
    /\ last.ret = -16
    /\ ~Bit(opMode, 6)

(***************************************************************************)
(* C8.  A 'set charging enabled' write requesting Not-charging reads no    *)
(* source status and succeeds whatever the source is (it returns the       *)
(* result of its one register write, which is success unless the register  *)
(* access itself fails); its only effect is to clear the charging-enable   *)
(* bit: the rest of that register, the target-current and target-voltage   *)
(* fields, user_current_ceiling, health and percent are as they were.      *)
(***************************************************************************)
C8_Step ==
    (last = Idle /\ last'.op = "set_property" /\ last'.psp = "STATUS"
        /\ last'.arg = 3) =>
        /\ Len(last'.log) = 1
        /\ EnableWrite(last'.log, 1, FALSE)
        /\ last'.ret = last'.log[1].ret
        /\ opMode' = IF last'.ret = 0 THEN WithoutBit6(opMode) ELSE opMode
        /\ chrgCtrl1' = chrgCtrl1
        /\ charge_user_imax' = charge_user_imax
        /\ health' = health
        /\ percent' = percent

C8_DisableOnlyClearsBit == [][C8_Step]_vars

\* charging disabled while a current of step 15 stays programmed
C8_Witness ==
    /\ last.op = "set_property" /\ last.psp = "STATUS" /\ last.arg = 3
    /\ last.ret = 0
    /\ ~Bit(opMode, 6)
    /\ chrgCtrl1 % 16 = 15
    /\ charge_user_imax = 1800000

(***************************************************************************)
(* C9.  A poll cycle that reads the battery-present bit as clear ends with *)
(* health = Unknown and percent = 0, whatever the voltage, temperature and *)
(* gauge registers hold, and reads none of them: its only register access  *)
(* is the read of the operating mode.                                      *)
(***************************************************************************)
C9_AbsentBattery ==
    (last.op \in PollOps /\ last.log[1].ret = 0 /\ ~Bit(last.log[1].val, 5)) =>
        /\ health = "Unknown"
        /\ percent = 0
        /\ Count(last.log, "read") = 1
        /\ Count(last.log, "update") = 0

\* the battery went away: the monitor reset the pair and notified
C9_Witness ==
    /\ last.op = "monitor"
    /\ last.log[1].ret = 0 /\ ~Bit(last.log[1].val, 5)
    /\ Count(last.log, "notify") = 1
    /\ health = "Unknown" /\ percent = 0

(***************************************************************************)
(* C10.  In a poll cycle with the battery present, a battery voltage       *)
(* reading below the dead-cell threshold (raw x 1100 < 2000000) gives      *)
(* health = Dead, also when a temperature range is configured and the      *)
(* temperature reading is out of it: never Cold or Overheat.               *)
(***************************************************************************)
C10_DeadHasPriority ==
    (last.op \in PollOps /\ last.log[1].ret = 0 /\ Bit(last.log[1].val, 5)
        /\ last.log[2].val >= 0 /\ last.log[2].val * 1100 < 2000000) =>
        health = "Dead"

\* a cell at 1.1 V with a temperature range configured is reported Cold
C10_Witness ==
    /\ last.op \in PollOps
    /\ last.log[1].ret = 0 /\ Bit(last.log[1].val, 5)
    /\ last.log[2].val = 1000
    /\ tbatt_min = 1500
    /\ health = "Cold"

(***************************************************************************)
(* C11.  In a poll cycle with the battery present, a temperature range     *)
(* configured and a battery-voltage reading that is not below the          *)
(* dead-cell threshold, health follows the temperature-sensor reading:     *)
(* Cold when it is below tbatt_min, Overheat when it is above tbatt_max,   *)
(* neither otherwise, whatever the battery voltage is.  With no range      *)
(* configured (both bounds 0) a poll never ends in Cold or Overheat.       *)
(***************************************************************************)
C11_TemperatureFromSensor ==
    (last.op \in PollOps /\ last.log[1].ret = 0 /\ Bit(last.log[1].val, 5)) =>
        IF tbatt_min # 0 \/ tbatt_max # 0
        THEN (last.log[2].val >= 0 /\ last.log[2].val * 1100 >= 2000000) =>
                /\ (health = "Cold") = (last.arg < tbatt_min)
                /\ (health = "Overheat") = (last.arg >= tbatt_min /\ last.arg > tbatt_max)
        ELSE health \notin {"Cold", "Overheat"}

\* sensor reading inside the range 1500..3000, cell at 3.85 V: Overheat
C11_Witness ==
    /\ last.op \in PollOps
    /\ last.log[1].ret = 0 /\ Bit(last.log[1].val, 5)
    /\ tbatt_min = 1500 /\ tbatt_max = 3000
    /\ last.arg = 2000
    /\ last.log[2].val = 3500
    /\ last.log[4].reg = "BATT_V_H" /\ last.log[4].val = 3500
    /\ health = "Overheat"

(***************************************************************************)
(* C12.  In a poll cycle with the battery present, a failed read of the    *)
(* gauge percent register leaves the stored percent at the value of the    *)
(* previous sample (it is not set to 0); a poll sets the stored percent to *)
(* 0 only when the battery is absent or the gauge itself reads 0.          *)
(***************************************************************************)
C12_Step ==
    (last = Idle /\ last'.op \in PollOps /\ last'.log[1].ret = 0
        /\ Bit(last'.log[1].val, 5)) =>
        /\ last'.log[3].reg = "FG_RES"
        /\ last'.log[3].ret < 0 => percent' = percent
        /\ (percent' = 0 /\ percent # 0) => (last'.log[3].ret = 0 /\ last'.log[3].val % 128 = 0)

C12_GaugeFailureKeepsPercent == [][C12_Step]_vars

\* the monitor found the battery present, could not read the gauge, stored
\* percent 0 and notified the change
C12_Witness ==
    /\ last.op = "monitor"
    /\ last.log[1].ret = 0 /\ Bit(last.log[1].val, 5)
    /\ last.log[3].reg = "FG_RES" /\ last.log[3].ret < 0
    /\ percent = 0
    /\ Count(last.log, "notify") = 1

(***************************************************************************)
(* C13.  Once the telemetry consumer is registered, a poll cycle that      *)
(* completes (its read of the operating mode succeeds) emits exactly one   *)
(* change notification when the pair it sampled differs from the stored    *)
(* (health, percent) in at least one component and none when both are      *)
(* equal, and the stored pair afterwards is the sampled one: Unknown and 0 *)
(* without a battery; with a battery, the gauge field when the gauge was   *)
(* read and, with no temperature range configured, Dead or Unknown as the  *)
(* voltage reading decides.                                                *)
(***************************************************************************)
C13_Step ==
    (last = Idle /\ supply /\ last'.op \in PollOps /\ last'.log[1].ret = 0) =>
        LET log == last'.log
        IN  /\ Count(log, "notify") =
                  IF health' # health \/ percent' # percent THEN 1 ELSE 0
            /\ Count(log, "notify") = 1 => log[Len(log)].k = "notify"
            /\ ~Bit(log[1].val, 5) => (health' = "Unknown" /\ percent' = 0)
            /\ (Bit(log[1].val, 5) /\ log[3].ret = 0) => percent' = log[3].val % 128
            /\ (Bit(log[1].val, 5) /\ tbatt_min = 0 /\ tbatt_max = 0) =>
                  health' = IF log[2].val >= 0 /\ log[2].val * 1100 < 2000000
                            THEN "Dead" ELSE "Unknown"

C13_NotifyIffChanged == [][C13_Step]_vars

\* a monitor cycle that sampled the pair already stored and stayed silent
C13_Witness ==
    /\ last.op = "monitor"
    /\ last.log[1].ret = 0 /\ Bit(last.log[1].val, 5)
    /\ Count(last.log, "notify") = 0
    /\ last.log[3].ret = 0
    /\ health = "Unknown" /\ percent = 127

(***************************************************************************)
(* C14.  health and percent are only mutated as a pair: no operation (poll *)
(* cycle, event handler, property write, configuration) changes health     *)
(* without also assigning percent, and none changes percent without also   *)
(* assigning health.                                                       *)
(***************************************************************************)
C14_Step ==
    (last = Idle /\ last'.op # "idle") =>
        /\ health' # health => Accesses(last'.log, "percent") # {}
        /\ percent' # percent => Accesses(last'.log, "health") # {}

C14_PairMutatedTogether == [][C14_Step]_vars

\* the activation-completed handler assigned health alone, next to a stored
\* percent of 55
C14_Witness ==
    /\ last.op = "irq" /\ last.psp = "BATT_ACTIVATED"
    /\ Accesses(last.log, "health") # {}
    /\ Accesses(last.log, "percent") = {}
    /\ health = "Good" /\ percent = 55

(***************************************************************************)
(* C15.  In every reachable state the stored percent is an integer in      *)
(* 0..100, for every value the 7-bit field of the gauge register can hold. *)
(***************************************************************************)
C15_PercentInRange == percent \in 0..100

\* a poll cycle read the gauge register as 255, whose 7-bit field is 127
C15_Witness ==
    /\ last.op \in PollOps
    /\ Len(last.log) >= 3
    /\ last.log[3].reg = "FG_RES" /\ last.log[3].ret = 0
    /\ last.log[3].val = 255
    /\ percent = 127

(***************************************************************************)
(* C16.  Each event handler has exactly the health effect of the event     *)
(* table: battery inserted, battery removed and activation started set     *)
(* health to Unknown; activation completed sets Good; overheat sets        *)
(* Overheat; under-temperature sets Cold; charging, charged,               *)
(* source-too-weak, power-low warning and power-low critical leave health  *)
(* unchanged.  No handler changes percent, capacity or charge_user_imax.   *)
(***************************************************************************)
EventHealth(name, h) ==
    CASE name \in {"BATT_PLUGIN", "BATT_REMOVAL", "BATT_ACTIVATE"} -> "Unknown"
      [] name = "BATT_ACTIVATED" -> "Good"
      [] name = "BATT_HOT"       -> "Overheat"
      [] name = "BATT_COLD"      -> "Cold"
      [] OTHER                   -> h

C16_Step ==
    (last = Idle /\ last'.op = "irq") =>
        /\ health' = EventHealth(last'.psp, health)
        /\ percent' = percent
        /\ capacity' = capacity
        /\ charge_user_imax' = charge_user_imax

C16_EventHealthTable == [][C16_Step]_vars

\* the charged event arrived while health was Cold and left it Cold, next to
\* a non-zero percent and a calibrated capacity
C16_Witness ==
    /\ last.op = "irq" /\ last.psp = "BATT_CHARGED"
    /\ health = "Cold"
    /\ percent = 55
    /\ capacity > 0

(***************************************************************************)
(* C17.  Each event handler has exactly the register effect of the event   *)
(* table: battery inserted sets the charging-enable bit, whatever the      *)
(* power source and whatever max_chg_current would answer (it reads no     *)
(* register); battery removed and overheat clear the bit; every other      *)
(* handler writes no register.  No handler touches the charge control      *)
(* register that holds the target current and the target voltage.  A write *)
(* the bus rejects leaves the register as it was.                          *)
(***************************************************************************)
EventWrite(log, on, om, om2) ==
    /\ Count(log, "update") = 1
    /\ \E k \in DOMAIN log :
         /\ EnableWrite(log, k, on)
         /\ om2 = IF log[k].ret < 0 THEN om
                  ELSE IF on THEN WithBit6(om) ELSE WithoutBit6(om)

C17_Step ==
    (last = Idle /\ last'.op = "irq") =>
        /\ Count(last'.log, "read") = 0
        /\ Accesses(last'.log, "CHRG_CTRL1") = {}
        /\ chrgCtrl1' = chrgCtrl1
        /\ CASE last'.psp = "BATT_PLUGIN" ->
                    EventWrite(last'.log, TRUE, opMode, opMode')
             [] last'.psp \in {"BATT_REMOVAL", "BATT_HOT"} ->
                    EventWrite(last'.log, FALSE, opMode, opMode')
             [] OTHER ->
                    Count(last'.log, "update") = 0 /\ opMode' = opMode

C17_EventRegisterTable == [][C17_Step]_vars

\* the insertion handler enabled charging on a driver that never learnt a
\* capacity, for which max_chg_current answers 0
C17_Witness ==
    /\ last.op = "irq" /\ last.psp = "BATT_PLUGIN"
    /\ \E k \in DOMAIN last.log : EnableWrite(last.log, k, TRUE) /\ last.log[k].ret = 0
    /\ Bit(opMode, 6)
    /\ capacity = 0

(***************************************************************************)
(* C18.  Every event handler emits exactly one notification on every       *)
(* invocation, as its last step: also when health did not change, and also *)
(* when its register write fails.                                          *)
(***************************************************************************)
C18_OneNotificationPerEvent ==
    last.op = "irq" =>
        /\ Count(last.log, "notify") = 1
        /\ last.log[Len(last.log)].k = "notify"

\* the removal handler's write was rejected by the bus and the handler
\* notified all the same
C18_Witness ==
    /\ last.op = "irq" /\ last.psp = "BATT_REMOVAL"
    /\ \E k \in DOMAIN last.log : last.log[k].k = "update" /\ last.log[k].ret < 0
    /\ Count(last.log, "notify") = 1

(***************************************************************************)
(* C19.  health = Good only if the most recent operation that assigned     *)
(* health was the activation-completed handler: health starts other than   *)
(* Good, an operation that takes it to Good is that handler, and every     *)
(* other operation that assigns health (poll cycle, other handler,         *)
(* configuration) assigns a value other than Good; a property write        *)
(* assigns none.                                                           *)
(***************************************************************************)
ActivationCompleted(o) == o.op = "irq" /\ o.psp = "BATT_ACTIVATED"

C19_Step ==
    (last = Idle /\ last'.op # "idle") =>
        /\ (health' = "Good" /\ health # "Good") => ActivationCompleted(last')
        /\ (Accesses(last'.log, "health") # {} /\ ~ActivationCompleted(last'))
               => health' # "Good"
        /\ last'.op = "set_property" => Accesses(last'.log, "health") = {}

C19_GoodOnlyFromActivation == [][C19_Step]_vars

\* Good, assigned by the activation-completed handler, is still stored after
\* a later monitor cycle that could not read the operating mode
C19_Witness ==
    /\ health = "Good"
    /\ last.op = "monitor"
    /\ last.log[1].ret < 0
    /\ Accesses(last.log, "health") = {}

(***************************************************************************)
(* C20.  The periodic monitor re-arms itself after every cycle it runs,    *)
(* including a cycle that aborted because its register read failed; so     *)
(* after every poll cycle of the monitor another one eventually runs       *)
(* (nothing suspends or removes the driver: those callbacks are not        *)
(* registered), and at most one cycle is pending at any time: the work is  *)
(* armed by the probe when none is pending, and afterwards only by the     *)
(* running cycle itself.                                                   *)
(***************************************************************************)
C20_Step ==
    /\ (last = Idle /\ last'.op = "monitor") => (monitor /\ monitor')
    /\ (last = Idle /\ last'.op = "arm") => (~monitor /\ monitor')
    /\ (last = Idle /\ last'.op \notin {"monitor", "arm"}) => monitor' = monitor
    /\ monitor => monitor'

C20_MonitorRearms ==
    /\ [][C20_Step]_vars
    /\ (last.op = "monitor") ~> (last = Idle /\ monitor)
    /\ (last = Idle /\ monitor) ~> (last.op = "monitor")

\* a monitor cycle aborted on its first read and the work is armed again
C20_Witness ==
    /\ last.op = "monitor"
    /\ Len(last.log) = 1 /\ last.log[1].ret < 0
    /\ monitor

(***************************************************************************)
(* C21.  When the host suspends, the pending periodic cycle is cancelled   *)
(* and no poll cycle runs while suspended; on resume exactly one poll      *)
(* cycle runs and the monitor is armed again after it.                     *)
(***************************************************************************)
C21_Step ==
    /\ (last = Idle /\ last'.op = "suspend") => ~monitor'
    /\ (last = Idle /\ pc = "suspended" /\ last'.op # "idle")
           => (last'.op \notin PollOps \/ last'.op = "resume")
    /\ (last = Idle /\ last'.op = "resume") =>
           /\ Cardinality(Accesses(last'.log, "PWR_OP_MODE")) = 1
           /\ monitor'

C21_SuspendCancelsResumePolls == [][C21_Step]_vars

\* a monitor cycle ran on a suspended host: the suspend left the work armed
C21_Witness ==
    /\ pc = "suspended"
    /\ last.op = "monitor"
    /\ monitor

(***************************************************************************)
(* C22.  The update of the (health, percent) pair is atomic with respect   *)
(* to readers: a consumer that loads health and percent ends with a pair   *)
(* the driver held, as a complete pair, at some moment of its read; never  *)
(* with the new value of one and the old value of the other.               *)
(***************************************************************************)
C22_NoTornPair ==
    reader.pc = "done" => <<reader.h, reader.p>> \in reader.pairs

\* the consumer loaded both fields while a monitor cycle was between its two
\* stores: the health the cycle just stored, with the percent it is about to
\* replace
C22_Witness ==
    /\ reader.pc = "done"
    /\ writer.busy
    /\ reader.h = health /\ reader.h # writer.h
    /\ reader.p = percent /\ reader.p # writer.p
    /\ Cardinality(reader.pairs) = 1
    /\ <<reader.h, reader.p>> \notin reader.pairs

(***************************************************************************)
(* C23.  reconfigure_charge_current() is idempotent: a second call made    *)
(* right after a first one, reading the same source status and the same    *)
(* bus limit, with capacity and user ceiling unchanged, asks for the same   *)
(* register writes (same target-current field, same charging-enable bit);  *)
(* and, the writes of the first call having reached the chip, it leaves    *)
(* both registers as the first call left them.                             *)
(***************************************************************************)
IsRead(e) == e.k = "read"

IsUpdate(e) == e.k = "update"

\* the registers, masks and values of the writes a log asks for
Writes(log) ==
    LET u == SelectSeq(log, IsUpdate)
    IN  [i \in DOMAIN u |-> <<u[i].reg, u[i].mask, u[i].val>>]

WritesDone(log) == \A i \in DOMAIN log : log[i].k = "update" => log[i].ret = 0

C23_ReconfigIdempotent ==
    last.op \in ReconfigOps =>
        \A io \in IoReconfig(SourceEnv) :
            LET r2 == axp20x_battery_chg_reconfig(capacity, charge_user_imax,
                                                   opMode, chrgCtrl1, io)
            IN  SelectSeq(r2.log, IsRead) = SelectSeq(last.log, IsRead) =>
                    /\ Writes(r2.log) = Writes(last.log)
                    /\ WritesDone(last.log) =>
                           (r2.opMode = opMode /\ r2.chrgCtrl1 = chrgCtrl1)

\* a reconfiguration moved the target-current field away from its reset
\* value and enabled charging
C23_Witness ==
    /\ last.op = "external_power_changed"
    /\ WritesDone(last.log)
    /\ Accesses(last.log, "CHRG_CTRL1") # {}
    /\ chrgCtrl1 # 200
    /\ Bit(opMode, 6)

(***************************************************************************)
(* C24.  If the calibration profile has an OCV entry greater than 100, or  *)
(* a temperature-sensor bias current outside {20, 40, 60, 80},             *)
(* configuration fails with invalid-argument (once the operating mode has  *)
(* been read) and the driver leaves the charge subsystem alone: no         *)
(* calibration register is written, no periodic cycle is armed, no event   *)
(* handler is registered, the telemetry consumer is not registered and no  *)
(* register write, of the charging-enable bit or of any other, is made:    *)
(* the probe has failed and no operation of the driver runs after it.      *)
(***************************************************************************)
BadProfile(dt) ==
    \/ \E i \in DOMAIN dt.ocv : dt.ocv[i] > 100
    \/ dt.temp # <<>> /\ dt.temp[1] \notin {20, 40, 60, 80}

C24_BadProfileFailsClean ==
    /\ pc = "config" =>
          \A dt \in SourceEnv.dt : \A io \in IoConfig(SourceEnv, opMode) :
              (BadProfile(dt) /\ io.mode >= 0) =>
                  LET c == axp20x_battery_config(dt, tbatt_min, tbatt_max, capacity,
                                                 charge_user_imax, chrgCtrl1, io)
                  IN  c.ret = -EINVAL /\ Count(c.log, "update") = 0
    /\ (last.op = "config" /\ last.ret = -EINVAL) =>
          /\ Count(last.log, "update") = 0
          /\ Count(last.log, "assign") = 0
          /\ pc = "failed"
    /\ pc = "failed" =>
          /\ ~monitor /\ ~irqs /\ ~supply
          /\ last.op \in {"config", "register", "idle"}

\* the configuration met an OCV entry above 100 or an unsupported sensor
\* current and gave up: start-up is over and nothing was written
C24_Witness ==
    /\ last.op = "config" /\ last.ret = -EINVAL
    /\ last.log[1].ret = 0
    /\ pc = "failed"
    /\ chrgCtrl1 = 200

(***************************************************************************)
(* C25.  If the design capacity is absent (0) and the battery-present bit  *)
(* read at configuration is clear, configuration fails with an error and   *)
(* asks for the charger-enable bit and the battery-monitor bit to be       *)
(* cleared (the charger-enable bit is clear afterwards unless the bus      *)
(* rejected the write); start-up stops there.  If the capacity is 0 but a  *)
(* battery is present, configuration does not take that exit.              *)
(***************************************************************************)
C25_NoBatteryDisables ==
    (last.op = "config" /\ last.arg = 0 /\ last.log[1].ret = 0) =>
        IF ~Bit(last.log[1].val, 5)
        THEN /\ last.ret < 0
             /\ pc = "failed" /\ ~monitor /\ ~irqs /\ ~supply
             /\ \E i \in Accesses(last.log, "CHRG_CTRL1") :
                   /\ last.log[i].k = "update"
                   /\ last.log[i].mask = 128 /\ last.log[i].val = 0
                   /\ last.log[i].ret = 0 => ~Bit(chrgCtrl1, 7)
             /\ \E i \in Accesses(last.log, "OFF_CTRL") :
                   /\ last.log[i].k = "update"
                   /\ last.log[i].mask = 64 /\ last.log[i].val = 0
        ELSE last.ret # -ENODEV

\* no capacity, no battery and an OCV entry above 100: the configuration
\* failed on the OCV entry and the charger is still enabled
C25_Witness ==
    /\ last.op = "config" /\ last.arg = 0
    /\ last.log[1].ret = 0 /\ ~Bit(last.log[1].val, 5)
    /\ last.ret = -EINVAL
    /\ Count(last.log, "update") = 0
    /\ Bit(chrgCtrl1, 7)
    /\ pc = "failed"

(***************************************************************************)
(* C26.  After a successful configuration with design capacity C mAh,      *)
(* capacity = C x 1000 uAh and charge_user_imax = max(capacity, 300000)    *)
(* uA; thereafter charge_user_imax changes only through an accepted write  *)
(* of the target charge current, which stores the value written; so it is  *)
(* at least 300000 in every state from the configuration on.               *)
(***************************************************************************)
C26_Step ==
    /\ (last = Idle /\ last'.op = "config" /\ last'.ret = 0) =>
          /\ capacity' % 1000 = 0 /\ capacity' \div 1000 = last'.arg
          /\ charge_user_imax' = IF capacity' > 300000 THEN capacity' ELSE 300000
    /\ (last = Idle /\ charge_user_imax' # charge_user_imax) =>
          \/ last'.op = "config" /\ last'.ret = 0
          \/ /\ last'.op = "set_property" /\ last'.psp = "CURRENT_MAX"
             /\ last'.ret = 0
             /\ charge_user_imax' = last'.arg
    /\ pc' \notin {"config", "failed"} => charge_user_imax' >= 300000

C26_CeilingAtLeastMinimum == [][C26_Step]_vars

\* a device tree gives 4294968 mAh: the 32-bit product wraps to 704 and the
\* configured driver has a ceiling of 704 uA
C26_Witness ==
    /\ pc = "done"
    /\ capacity = 704
    /\ charge_user_imax = 704

(***************************************************************************)
(* C27: a telemetry read returns exactly the raw reading of the quantity's *)
(* own ADC times its scale: voltage-now is the battery-voltage reading     *)
(* x 1100, current-now the charge-current reading (charging status bit     *)
(* set) or the discharge-current reading (otherwise) x 500, temperature    *)
(* the temperature-sensor reading x 800; a failed register read returns    *)
(* the I/O error and stores no value.                                      *)
(***************************************************************************)
OutValues(log) == {log[i].val : i \in {j \in DOMAIN log : log[j].k = "out"}}

\* the read of the ADC `name` holding v decoded with `scale`
DecodedFrom(log, ret, name, v, scale) ==
    /\ log # <<>>
    /\ \A i \in DOMAIN log : log[i].k = "read" /\ i > 1 =>
           log[i].reg = name /\ log[i].val = v
    /\ IF v < 0 THEN ret = v /\ OutValues(log) = {}
       ELSE ret = 0 /\ OutValues(log) = {v * scale}

C27_ScaledOwnReading ==
    last.op = "get_property" =>
        /\ last.psp = "VOLTAGE_NOW" =>
               /\ last.log[1] = Rd("BATT_V_H", last.log[1].val)
               /\ IF last.log[1].val < 0
                  THEN last.ret = last.log[1].val /\ OutValues(last.log) = {}
                  ELSE last.ret = 0
                       /\ OutValues(last.log) = {last.log[1].val * 1100}
        /\ last.psp = "CURRENT_NOW" =>
               /\ last.log[1].reg = "PWR_INPUT_STATUS"
               /\ IF last.log[1].val < 0
                  THEN last.ret = last.log[1].val /\ OutValues(last.log) = {}
                  ELSE /\ Len(last.log) >= 2
                       /\ last.log[2].reg =
                              IF BitAnd(last.log[1].val, AXP20X_PWR_STATUS_BAT_CHARGING) # 0
                              THEN "BATT_CHRG_I_H" ELSE "BATT_DISCHRG_I_H"
                       /\ DecodedFrom(last.log, last.ret, last.log[2].reg,
                                      last.log[2].val, 500)
        /\ last.psp = "TEMP" =>
               (last.ret = 0 => OutValues(last.log) = {last.arg * 800})

\* with a temperature sensor configured, the temperature is read while the
\* battery-voltage ADC and the temperature-sensor ADC hold different values
C27_Witness ==
    /\ last.op = "get_property"
    /\ last.psp = "TEMP"
    /\ last.ret = 0
    /\ last.arg = 2000
    /\ tbatt_max # 0
    /\ OutValues(last.log) = {2048 * 800}

(***************************************************************************)
(* C28: a poll cycle that hits a register read failure stops early: after  *)
(* the first failed read (presence, voltage, gauge or temperature) no      *)
(* later register is read in that cycle, and the failed read is not        *)
(* retried within the cycle.                                               *)
(***************************************************************************)
FailedRead(e) == e.k = "read" /\ e.val < 0

C28_PollStopsAtFailedRead ==
    last.op \in PollOps =>
        \A i \in DOMAIN last.log : FailedRead(last.log[i]) =>
            \A j \in DOMAIN last.log : j > i => last.log[j].k # "read"

\* a cycle whose battery-voltage read fails
C28_Witness ==
    /\ last.op \in PollOps
    /\ Len(last.log) >= 2
    /\ last.log[2] = Rd("BATT_V_H", -EIO)

(***************************************************************************)
(* C29: a write of voltage-max-design with 4100000, 4150000 or 4200000 uV  *)
(* succeeds (its result is that of the one register update it makes),      *)
(* changes only the target-voltage field, and a following read of          *)
(* voltage-max-design returns the written value; a write of 4360000 or of  *)
(* any other value fails with invalid-argument and leaves the              *)
(* target-voltage field, the target-current field and the charging-enable  *)
(* bit unchanged.                                                          *)
(***************************************************************************)
SupportedVoltages == {4100000, 4150000, 4200000}

\* what a read of voltage-max-design made in the state reached returns
\* whenever its register read succeeds
ReadsBack(v, cc1, om) ==
    \A io \in IoGet(TelemetryEnv, "VOLTAGE_MAX_DESIGN", om, cc1) :
        io.reg >= 0 =>
            LET r == axp20x_battery_power_get_property("VOLTAGE_MAX_DESIGN",
                         health, percent, capacity, tbatt_min, tbatt_max, io)
            IN  r.ret = 0 /\ OutValues(r.log) = {v}

C29_Step ==
    last = Idle /\ last'.op = "set_property" /\ last'.psp = "VOLTAGE_MAX_DESIGN" =>
        /\ opMode' = opMode
        /\ charge_user_imax' = charge_user_imax
        /\ IF last'.arg \in SupportedVoltages
           THEN /\ Len(last'.log) = 1
                /\ last'.log[1].k = "update"
                /\ last'.log[1].reg = "CHRG_CTRL1"
                /\ last'.log[1].mask = AXP20X_CHRG_CTRL1_TGT_VOLT
                /\ last'.ret = last'.log[1].ret
                /\ chrgCtrl1' - BitAnd(chrgCtrl1', AXP20X_CHRG_CTRL1_TGT_VOLT)
                       = chrgCtrl1 - BitAnd(chrgCtrl1, AXP20X_CHRG_CTRL1_TGT_VOLT)
                /\ last'.ret = 0 => ReadsBack(last'.arg, chrgCtrl1', opMode')
                /\ last'.ret # 0 => chrgCtrl1' = chrgCtrl1
           ELSE /\ last'.ret = -EINVAL
                /\ last'.log = <<>>
                /\ chrgCtrl1' = chrgCtrl1

C29_VoltageWriteReadsBack == [][C29_Step]_vars

\* 4.1 V has been written over the 4.2 V the configuration leaves
C29_Witness ==
    /\ last.op = "set_property"
    /\ last.psp = "VOLTAGE_MAX_DESIGN"
    /\ last.arg = 4100000
    /\ last.ret = 0
    /\ BitAnd(chrgCtrl1, AXP20X_CHRG_CTRL1_TGT_VOLT) = AXP20X_CHRG_CTRL1_TGT_4_1V
    /\ ReadsBack(4100000, chrgCtrl1, opMode)

(***************************************************************************)
(* C30: every poll cycle whose presence read succeeds leaves health in     *)
(* {Unknown, Dead, Cold, Overheat}: a Good set by the activation-completed *)
(* handler does not survive the next such cycle, which replaces it (by     *)
(* Unknown when the battery is present, not dead and within the            *)
(* temperature range, as the cycle's own readings tell) and emits a        *)
(* notification, even though nothing changed in the hardware readings.     *)
(***************************************************************************)
\* the cycle logged in log found the battery present, its voltage not below
\* the dead threshold and its temperature reading inside [tmin, tmax]
SampledHealthy(log, tmin, tmax) ==
    /\ Bit(log[1].val, 5)
    /\ ~(log[2].val >= 0 /\ log[2].val * 1100 < 2000000)
    /\ (tmin # 0 \/ tmax # 0) =>
           ~(log[4].val >= 0 /\ (log[4].val < tmin \/ log[4].val > tmax))

C30_Step ==
    (last = Idle /\ last'.op \in PollOps /\ last'.log[1].ret = 0) =>
        /\ health' \in {"Unknown", "Dead", "Cold", "Overheat"}
        /\ health = "Good" =>
              /\ Accesses(last'.log, "health") # {}
              /\ Count(last'.log, "notify") = 1
              /\ SampledHealthy(last'.log, tbatt_min, tbatt_max) =>
                     health' = "Unknown"

CurrentWrites(log) ==
    {i \in DOMAIN log : /\ log[i].k = "update"
                        /\ log[i].reg = "CHRG_CTRL1"
                        /\ log[i].mask = AXP20X_CHRG_CTRL1_TGT_CURR
                        /\ log[i].ret = 0}

C31_WrittenCurrentWithinCeiling ==
    last.op \in ReconfigOps =>
        \A i \in CurrentWrites(last.log) :
            /\ BitAnd(chrgCtrl1, AXP20X_CHRG_CTRL1_TGT_CURR)
                   = BitAnd(last.log[i].val, AXP20X_CHRG_CTRL1_TGT_CURR)
            /\ 300000 + BitAnd(chrgCtrl1, AXP20X_CHRG_CTRL1_TGT_CURR) * 100000
                   <= charge_user_imax

\* the start-up reconfiguration of a 400 mAh cell on mains: the ceiling is
\* 400000 uA and the field written encodes 1800000 uA
C31_Witness ==
    /\ last.op \in ReconfigOps
    /\ CurrentWrites(last.log) # {}
    /\ charge_user_imax = 400000
    /\ BitAnd(chrgCtrl1, AXP20X_CHRG_CTRL1_TGT_CURR) = 15

(***************************************************************************)
(* C32: start-up runs in the fixed order configuration, one poll cycle,    *)
(* telemetry-consumer registration, one reconfigure_charge_current(),      *)
(* event-handler registration, first arming of the periodic monitor.       *)
(* Consequently no event handler and no periodic cycle runs before the     *)
(* telemetry-consumer handle exists, the initial poll cycle updates        *)
(* Battery State but emits no notification, and the first notification of  *)
(* the driver is the one from the start-up reconfigure.                    *)
(***************************************************************************)
\* the steps of axp20x_power_probe: where each starts and where it leads
StartupOrder ==
    {<<"config", "config", "poll">>, <<"config", "config", "failed">>,
     <<"poll", "poll", "register">>,
     <<"register", "register", "reconfig">>, <<"register", "register", "failed">>,
     <<"reconfig", "reconfig", "irqs">>,
     <<"irqs", "request_irqs", "arm">>,
     <<"arm", "arm", "done">>}

StartupOps == {t[2] : t \in StartupOrder}

\* start-up has not yet made its reconfigure_charge_current()
BeforeStartupReconfig == pc \in {"config", "poll", "register", "reconfig"}

C32_OrderStep ==
    (last = Idle /\ last'.op # "idle") =>
        /\ IF last'.op \in StartupOps
           THEN <<pc, last'.op, pc'>> \in StartupOrder
           ELSE pc' = pc
        /\ last'.op \in {"irq", "monitor"} => supply
        /\ last'.op = "poll" =>
              /\ ~supply
              /\ Count(last'.log, "notify") = 0
              /\ (health' # health \/ percent' # percent)
                     => Accesses(last'.log, "health") # {}

C32_FirstNotificationStep ==
    (last = Idle /\ last'.op # "idle") =>
        /\ (BeforeStartupReconfig /\ Count(last'.log, "notify") > 0)
               => last'.op = "reconfig"
        /\ last'.op = "reconfig" => Count(last'.log, "notify") = 1

C32_StartupOrder == [][C32_OrderStep /\ C32_FirstNotificationStep]_vars

\* a property write that reconfigures and notifies while start-up has
\* registered the consumer but not yet made its own reconfigure
C32_Witness ==
    /\ pc = "reconfig"
    /\ last.op = "set_property"
    /\ Count(last.log, "notify") = 1

====
